---------------------------- MODULE Spec2Model ----------------------------
(***************************************************************************)
(* A model of the Go package ipaddr (mikioh/ipaddr): address prefixes as   *)
(* fixed-width bit vectors with a length tag, the per-prefix operations,   *)
(* the set operations Supernet / Aggregate / Summarize and the Cursor.     *)
(*                                                                         *)
(* Word sizes are scaled down so that the whole input space can be         *)
(* enumerated: an IPv4 address has IPv4PrefixLen bits (32 in the source)   *)
(* and an IPv6 address is a pair of words of HalfLen bits each (64 in the  *)
(* source).  Every arithmetic operation keeps the scaled width: shifts     *)
(* drop the bits that leave the word and a shift count that is negative    *)
(* (a huge unsigned count in Go) or not below the word size yields 0.      *)
(***************************************************************************)
EXTENDS Integers, Sequences, FiniteSets, TLC

(***************************************************************************)
(* Bounds of the model.                                                    *)
(***************************************************************************)
\* bits of an IPv4 address (8 * net.IPv4len = 32 in the source)
IPv4PrefixLen == 4
\* bits of one word of an ipv6Int (64 in the source)
HalfLen == 3
\* Subnets and Hosts enumerate lazily from this many bits on (17 in the source)
LazyMin == 3
\* longest input list given to Supernet and Aggregate
MaxList == 3
\* largest number of subnet bits asked of Subnets
MaxSubnetBits == 4
\* the cursors that are moved with Set stand on prefixes of at most this many
\* host bits
SetHostBits == 1
\* and on this many addresses of each block of 2^IPv4PrefixLen addresses
SetAddrs == 2

IPv6PrefixLen == 2 * HalfLen

VARIABLES
    op,     \* the operation that has run: "init" before it
    p,      \* the receiver prefix
    x,      \* the argument prefix
    n,      \* the integer argument
    ps,     \* the argument list of prefixes
    a1, a2, \* the address arguments
    ret,    \* the returned list (a returned prefix is a list of one)
    st,     \* how the call ended: "ok", "nil", "panic", "diverge"
    cursor, \* the Cursor: curr, last, pi and ps
    visited, \* the positions the cursor has been at, in order
    iter    \* the host iterator: its cur and whether its channel is open

vars == <<op, p, x, n, ps, a1, a2, ret, st, cursor, visited, iter>>

(***************************************************************************)
(* Bit operations on naturals.                                             *)
(***************************************************************************)
RECURSIVE BitAnd(_, _)
BitAnd(a, b) ==
    IF a = 0 \/ b = 0 THEN 0
    ELSE (a % 2) * (b % 2) + 2 * BitAnd(a \div 2, b \div 2)

RECURSIVE BitOr(_, _)
BitOr(a, b) ==
    IF a = 0 THEN b
    ELSE IF b = 0 THEN a
    ELSE (IF a % 2 = 1 \/ b % 2 = 1 THEN 1 ELSE 0) + 2 * BitOr(a \div 2, b \div 2)

RECURSIVE BitXor(_, _)
BitXor(a, b) ==
    IF a = 0 THEN b
    ELSE IF b = 0 THEN a
    ELSE ((a + b) % 2) + 2 * BitXor(a \div 2, b \div 2)

\* a << s in a word of w bits; s < 0 stands for the huge count uint(s)
Shl(a, s, w) == IF s < 0 \/ s >= w THEN 0 ELSE (a * 2^s) % 2^w

\* a >> s in a word of w bits
Shr(a, s, w) == IF s < 0 \/ s >= w THEN 0 ELSE a \div 2^s

\* ^a in a word of w bits
BitNot(a, w) == 2^w - 1 - a

\* the number of leading zeros of a word of w bits
RECURSIVE nlz(_, _)
nlz(bs, w) == IF w = 0 \/ bs >= 2^(w - 1) THEN 0 ELSE 1 + nlz(bs, w - 1)

nlz32(bs) == nlz(bs, IPv4PrefixLen)

nlz64(bs) == nlz(bs, HalfLen)

\* -uint32(1 << uint(32-nbits))
mask32(nbits) == (2^IPv4PrefixLen - Shl(1, IPv4PrefixLen - nbits, IPv4PrefixLen)) % 2^IPv4PrefixLen

\* -uint64(1 << uint(64-nbits))
mask64(nbits) == (2^HalfLen - Shl(1, HalfLen - nbits, HalfLen)) % 2^HalfLen

(***************************************************************************)
(* Prefixes.  A prefix is a record [fam, hi, lo, nbits]: an IPv4 prefix    *)
(* keeps its address in lo (hi is 0), an IPv6 prefix keeps addr[0] in hi   *)
(* and addr[1] in lo.  NilPrefix is the nil interface value.               *)
(***************************************************************************)
NilPrefix == [fam |-> 0, hi |-> 0, lo |-> 0, nbits |-> 0]

IPv4(addr, nbits) == [fam |-> 4, hi |-> 0, lo |-> addr, nbits |-> nbits]

\* (*IPv4).set through newIPv4
newIPv4(i, nbits) == IPv4(BitAnd(i, mask32(nbits)), nbits)

IPv4contains(q, i) == q.lo = BitAnd(i, mask32(q.nbits))

IPv4Equal(q, r) == r.fam = 4 /\ q.lo = r.lo /\ q.nbits = r.nbits

IPv4lastAddr(q) == BitOr(q.lo, BitNot(mask32(q.nbits), IPv4PrefixLen))

\* Overlaps that looks from the receiver's side only
IPv4OverlapsOneSided(q, r) ==
    /\ r.fam = 4
    /\ (IPv4contains(q, r.lo) \/ IPv4contains(q, IPv4lastAddr(r)))

IPv4Overlaps(q, r) ==
    /\ r.fam = 4
    /\ \/ IPv4contains(q, r.lo)
       \/ IPv4contains(q, IPv4lastAddr(r))
       \/ IPv4contains(r, q.lo)
       \/ IPv4contains(r, IPv4lastAddr(q))

IPv4isBroadcastAddr(q, i) == BitOr(q.lo, BitNot(mask32(q.nbits), IPv4PrefixLen)) = i

IPv4isLimitedBroadcastAddr(i) == i = 2^IPv4PrefixLen - 1

\* the initial prefixes of either family are the results of NewPrefix
V4Addrs == 0 .. (2^IPv4PrefixLen - 1)

V4Prefixes == {newIPv4(a, l) : a \in V4Addrs, l \in 0 .. IPv4PrefixLen}


(***************************************************************************)
(* IPv4 prefix operations.                                                 *)
(***************************************************************************)
\* the two halves of q, one bit longer
IPv4descend(q, nb) ==
    << IPv4(q.lo, q.nbits + nb),
       IPv4(BitOr(q.lo, Shl(1, IPv4PrefixLen - q.nbits - 1, IPv4PrefixLen)), q.nbits + nb) >>

\* The descent loop of Exclude.  Past the address width every mask is 0 and
\* descend adds no bit, so an iteration that still finds the address
\* repeats for ever: the call never returns ("diverge").
RECURSIVE IPv4ExcludeLoop(_, _, _, _)
IPv4ExcludeLoop(l, r, xx, subs) ==
    IF ~IPv4Equal(l, xx) /\ ~IPv4Equal(r, xx)
    THEN IF l.nbits > IPv4PrefixLen + 1
         THEN [st |-> IF IPv4contains(l, xx.lo) \/ IPv4contains(r, xx.lo)
                      THEN "diverge" ELSE "panic",
               subs |-> << >>]
         ELSE IF IPv4contains(l, xx.lo)
         THEN LET d == IPv4descend(l, 1)
              IN  IPv4ExcludeLoop(d[1], d[2], xx, Append(subs, newIPv4(r.lo, r.nbits)))
         ELSE IF IPv4contains(r, xx.lo)
         THEN LET d == IPv4descend(r, 1)
              IN  IPv4ExcludeLoop(d[1], d[2], xx, Append(subs, newIPv4(l.lo, l.nbits)))
         ELSE [st |-> "panic", subs |-> << >>]
    ELSE IF IPv4Equal(l, xx)
    THEN [st |-> "ok", subs |-> Append(subs, newIPv4(r.lo, r.nbits))]
    ELSE [st |-> "ok", subs |-> Append(subs, newIPv4(l.lo, l.nbits))]

IPv4Exclude(q, xx) ==
    IF xx.fam # 4 THEN [st |-> "ok", subs |-> << >>]
    ELSE IF ~IPv4contains(q, xx.lo) THEN [st |-> "ok", subs |-> << >>]
    ELSE IF IPv4Equal(q, xx) THEN [st |-> "ok", subs |-> << IPv4(xx.lo, xx.nbits) >>]
    ELSE LET d == IPv4descend(q, 1)
         IN  IPv4ExcludeLoop(d[1], d[2], xx, << >>)

\* The prefixes a consumer receives from SubnetIter when it takes every
\* element as soon as it is offered (the idle timer never fires).
RECURSIVE ipv4SubnetIterRun(_, _, _, _, _, _)
ipv4SubnetIterRun(q, m, nbits, cur, passed, out) ==
    IF ~IPv4isLimitedBroadcastAddr(cur) /\ ~IPv4isBroadcastAddr(q, BitOr(cur, m))
    THEN LET nxt == IF ~passed THEN cur ELSE (BitOr(cur, m) + 1) % 2^IPv4PrefixLen
         IN  ipv4SubnetIterRun(q, m, nbits, nxt, TRUE, Append(out, newIPv4(nxt, nbits)))
    ELSE out

IPv4SubnetIter(q, nb) ==
    IF nb < 0 \/ q.nbits + nb > IPv4PrefixLen THEN << >>
    ELSE ipv4SubnetIterRun(q, BitNot(mask32(q.nbits + nb), IPv4PrefixLen),
                           q.nbits + nb, q.lo, FALSE, << >>)

IPv4Subnets(q, nb) ==
    IF nb < 0 \/ q.nbits + nb > IPv4PrefixLen THEN << >>
    ELSE IF nb < LazyMin
    THEN LET off == IPv4PrefixLen - q.nbits - nb
         IN  [i \in 1 .. 2^nb |->
                 newIPv4(BitOr(q.lo, ((i - 1) * 2^off) % 2^IPv4PrefixLen), q.nbits + nb)]
    ELSE IPv4SubnetIter(q, nb)

\* summarizeIPv4Len without the check that the block ends at or before last
summarizeIPv4LenUnbounded(first, last, nbits) ==
    CHOOSE l \in 0 .. nbits :
        /\ first % 2^(IPv4PrefixLen - l) = 0
        /\ \A k \in 0 .. (l - 1) : first % 2^(IPv4PrefixLen - k) # 0

\* the longest prefix length at which first is aligned and ends at or before last
RECURSIVE summarizeIPv4Len(_, _, _)
summarizeIPv4Len(first, last, nbits) ==
    IF nbits > 0
    THEN LET m == mask32(nbits - 1)
             l == BitAnd(first, m)
             r == BitOr(first, BitNot(mask32(nbits - 1), IPv4PrefixLen))
         IN  IF first # l \/ r > last THEN nbits
             ELSE summarizeIPv4Len(first, last, nbits - 1)
    ELSE nbits

RECURSIVE summarizeIPv4Loop(_, _, _)
summarizeIPv4Loop(first, last, sums) ==
    IF first <= last
    THEN LET q == newIPv4(first, summarizeIPv4Len(first, last, IPv4PrefixLen))
             e == IPv4lastAddr(q)
         IN  IF e = 2^IPv4PrefixLen - 1 THEN Append(sums, q)
             ELSE summarizeIPv4Loop(e + 1, last, Append(sums, q))
    ELSE sums

summarizeIPv4(firstip, lastip) == summarizeIPv4Loop(firstip, lastip, << >>)

(***************************************************************************)
(* ipv6Int: a pair <<i[0], i[1]>> of words of HalfLen bits.                *)
(***************************************************************************)
lshift(i, nbits) ==
    << BitOr(BitOr(Shl(i[1], nbits, HalfLen), Shr(i[2], HalfLen - nbits, HalfLen)),
             Shl(i[2], nbits - HalfLen, HalfLen)),
       Shl(i[2], nbits, HalfLen) >>

incr(i) ==
    IF i[2] = 2^HalfLen - 1 THEN << (i[1] + 1) % 2^HalfLen, 0 >> ELSE << i[1], i[2] + 1 >>

setHostmask(nbits) ==
    IF nbits > HalfLen
    THEN << BitNot(mask64(HalfLen), HalfLen), BitNot(mask64(nbits - HalfLen), HalfLen) >>
    ELSE << BitNot(mask64(nbits), HalfLen), mask64(HalfLen) >>

setNetmask(nbits) ==
    IF nbits > HalfLen
    THEN << mask64(HalfLen), mask64(nbits - HalfLen) >>
    ELSE << mask64(nbits), 0 >>

\* the three-way comparison of two ipv6Int values
cmp(i, j) ==
    IF i[1] < j[1] THEN -1
    ELSE IF i[1] > j[1] THEN 1
    ELSE IF i[2] < j[2] THEN -1
    ELSE IF i[2] > j[2] THEN 1
    ELSE 0

(***************************************************************************)
(* IPv6 prefix operations.                                                 *)
(***************************************************************************)
IPv6(i, nbits) == [fam |-> 6, hi |-> i[1], lo |-> i[2], nbits |-> nbits]

\* set storing the address as given, without the netmask
newIPv6Unmasked(i, nbits) == IPv6(i, nbits)

\* (*IPv6).set through newIPv6
newIPv6(i, nbits) ==
    IF nbits > HalfLen
    THEN IPv6(<< i[1], BitAnd(i[2], mask64(nbits - HalfLen)) >>, nbits)
    ELSE IPv6(<< BitAnd(i[1], mask64(nbits)), 0 >>, nbits)

IPv6contains(q, i) ==
    IF q.nbits > HalfLen
    THEN q.hi = i[1] /\ q.lo = BitAnd(i[2], mask64(q.nbits - HalfLen))
    ELSE q.hi = BitAnd(i[1], mask64(q.nbits))

IPv6Equal(q, r) == r.fam = 6 /\ q.hi = r.hi /\ q.lo = r.lo /\ q.nbits = r.nbits

IPv6lastAddr(q) ==
    LET i == setHostmask(q.nbits) IN << BitOr(q.hi, i[1]), BitOr(q.lo, i[2]) >>

IPv6Overlaps(q, r) ==
    /\ r.fam = 6
    /\ \/ IPv6contains(q, << r.hi, r.lo >>)
       \/ IPv6contains(q, IPv6lastAddr(r))
       \/ IPv6contains(r, << q.hi, q.lo >>)
       \/ IPv6contains(r, IPv6lastAddr(q))

IPv6isLastAddr(q, i) ==
    IF q.nbits > HalfLen
    THEN /\ BitOr(q.hi, BitNot(mask64(HalfLen), HalfLen)) = i[1]
         /\ BitOr(q.lo, BitNot(mask64(q.nbits - HalfLen), HalfLen)) = i[2]
    ELSE /\ BitOr(q.hi, BitNot(mask64(q.nbits), HalfLen)) = i[1]
         /\ mask64(HalfLen) = i[2]

V6Addrs == {<< h, l >> : h \in 0 .. (2^HalfLen - 1), l \in 0 .. (2^HalfLen - 1)}

V6Prefixes == {newIPv6(a, l) : a \in V6Addrs, l \in 0 .. IPv6PrefixLen}

\* descend with the bit of the right half shifted one place too few
IPv6descendOffByOne(q, nb) ==
    LET id == lshift(<< 0, 1 >>, IPv6PrefixLen - q.nbits - nb - 1)
    IN  << IPv6(<< q.hi, q.lo >>, q.nbits + nb),
           IPv6(<< BitOr(q.hi, id[1]), BitOr(q.lo, id[2]) >>, q.nbits + nb) >>

IPv6descend(q, nb) ==
    LET id == lshift(<< 0, 1 >>, IPv6PrefixLen - q.nbits - nb)
    IN  << IPv6(<< q.hi, q.lo >>, q.nbits + nb),
           IPv6(<< BitOr(q.hi, id[1]), BitOr(q.lo, id[2]) >>, q.nbits + nb) >>

RECURSIVE IPv6ExcludeLoop(_, _, _, _)
IPv6ExcludeLoop(l, r, xx, subs) ==
    IF ~IPv6Equal(l, xx) /\ ~IPv6Equal(r, xx)
    THEN IF l.nbits > IPv6PrefixLen + 1
         THEN [st |-> IF IPv6contains(l, << xx.hi, xx.lo >>) \/ IPv6contains(r, << xx.hi, xx.lo >>)
                      THEN "diverge" ELSE "panic",
               subs |-> << >>]
         ELSE IF IPv6contains(l, << xx.hi, xx.lo >>)
         THEN LET d == IPv6descend(l, 1)
              IN  IPv6ExcludeLoop(d[1], d[2], xx, Append(subs, newIPv6(<< r.hi, r.lo >>, r.nbits)))
         ELSE IF IPv6contains(r, << xx.hi, xx.lo >>)
         THEN LET d == IPv6descend(r, 1)
              IN  IPv6ExcludeLoop(d[1], d[2], xx, Append(subs, newIPv6(<< l.hi, l.lo >>, l.nbits)))
         ELSE [st |-> "panic", subs |-> << >>]
    ELSE IF IPv6Equal(l, xx)
    THEN [st |-> "ok", subs |-> Append(subs, newIPv6(<< r.hi, r.lo >>, r.nbits))]
    ELSE [st |-> "ok", subs |-> Append(subs, newIPv6(<< l.hi, l.lo >>, l.nbits))]

IPv6Exclude(q, xx) ==
    IF xx.fam # 6 THEN [st |-> "ok", subs |-> << >>]
    ELSE IF ~IPv6contains(q, << xx.hi, xx.lo >>) THEN [st |-> "ok", subs |-> << >>]
    ELSE IF IPv6Equal(q, xx) THEN [st |-> "ok", subs |-> << IPv6(<< xx.hi, xx.lo >>, xx.nbits) >>]
    ELSE LET d == IPv6descend(q, 1)
         IN  IPv6ExcludeLoop(d[1], d[2], xx, << >>)

RECURSIVE ipv6SubnetIterRun(_, _, _, _, _, _)
ipv6SubnetIterRun(q, m, nbits, cur, passed, out) ==
    IF ~IPv6isLastAddr(q, << BitOr(cur[1], m[1]), BitOr(cur[2], m[2]) >>)
    THEN LET nxt == IF ~passed THEN cur
                    ELSE incr(<< BitOr(cur[1], m[1]), BitOr(cur[2], m[2]) >>)
         IN  ipv6SubnetIterRun(q, m, nbits, nxt, TRUE, Append(out, newIPv6(nxt, nbits)))
    ELSE out

IPv6SubnetIter(q, nb) ==
    IF nb < 0 \/ q.nbits + nb > IPv6PrefixLen THEN << >>
    ELSE ipv6SubnetIterRun(q, setHostmask(q.nbits + nb), q.nbits + nb,
                           << q.hi, q.lo >>, FALSE, << >>)

\* Subnets stopping one subnet early
IPv6SubnetsShort(q, nb) ==
    LET l == IPv6SubnetIter(q, nb) IN SubSeq(l, 1, Len(l) - 1)

IPv6Subnets(q, nb) ==
    IF nb < 0 \/ q.nbits + nb > IPv6PrefixLen THEN << >>
    ELSE IF nb < LazyMin
    THEN LET off == IPv6PrefixLen - q.nbits - nb
         IN  [i \in 1 .. 2^nb |->
                 LET id == lshift(<< 0, i - 1 >>, off)
                 IN  newIPv6(<< BitOr(q.hi, id[1]), BitOr(q.lo, id[2]) >>, q.nbits + nb)]
    ELSE IPv6SubnetIter(q, nb)

(***************************************************************************)
(* Set operations: Compare, sortAndDedup, Supernet, Aggregate.             *)
(***************************************************************************)
IPv4compare(a, b) ==
    IF a.lo < b.lo THEN -1
    ELSE IF a.lo > b.lo THEN 1
    ELSE IF a.nbits < b.nbits THEN -1
    ELSE IF a.nbits > b.nbits THEN 1
    ELSE 0

IPv6compare(a, b) ==
    IF a.hi < b.hi THEN -1
    ELSE IF a.hi > b.hi THEN 1
    ELSE IF a.lo < b.lo THEN -1
    ELSE IF a.lo > b.lo THEN 1
    ELSE IF a.nbits < b.nbits THEN -1
    ELSE IF a.nbits > b.nbits THEN 1
    ELSE 0

Compare(a, b) ==
    IF a.fam = 4 THEN (IF b.fam # 4 THEN -1 ELSE IPv4compare(a, b))
    ELSE IF a.fam = 6 THEN (IF b.fam # 6 THEN -1 ELSE IPv6compare(a, b))
    ELSE -1

\* byAddrAndLen.Less
Less(a, b) ==
    LET ncmp == Compare(a, b)
    IN  IF ncmp < 0 THEN TRUE
        ELSE IF ncmp > 0 THEN FALSE
        ELSE a.nbits < b.nbits

ipv4Only(l) == SelectSeq(l, LAMBDA q : q.fam = 4)

ipv6Only(l) == SelectSeq(l, LAMBDA q : q.fam = 6)

\* sort.Sort(byAddrAndLen(ps)): the list in the order of Less
RECURSIVE SortInsert(_, _)
SortInsert(sorted, q) ==
    IF sorted = << >> THEN << q >>
    ELSE IF Less(q, Head(sorted)) THEN << q >> \o sorted
    ELSE << Head(sorted) >> \o SortInsert(Tail(sorted), q)

RECURSIVE Sort(_)
Sort(l) == IF l = << >> THEN << >> ELSE SortInsert(Sort(Tail(l)), Head(l))

\* the loop of sortAndDedup: an element equal to its predecessor is dropped
RECURSIVE Dedup(_)
Dedup(l) ==
    IF Len(l) <= 1 THEN l
    ELSE LET d == Dedup(SubSeq(l, 1, Len(l) - 1))
             prev == l[Len(l) - 1]
             q == l[Len(l)]
             eq == IF prev.fam = 4 THEN IPv4Equal(prev, q) ELSE IPv6Equal(prev, q)
         IN  IF eq THEN d ELSE Append(d, q)

sortAndDedup(l) ==
    IF l[1].fam = 4 THEN Dedup(Sort(ipv4Only(l)))
    ELSE IF l[1].fam = 6 THEN Dedup(Sort(ipv6Only(l)))
    ELSE << >>

\* the shortened length after the elements subs[i..] have been looked at
RECURSIVE supernetIPv4Len(_, _, _, _, _)
supernetIPv4Len(subs, i, base, m, nbits) ==
    IF i > Len(subs) THEN nbits
    ELSE LET diff == BitAnd(BitXor(base, subs[i].lo), m)
             l == nlz32(diff)
         IN  supernetIPv4Len(subs, i + 1, base, m,
                             IF diff # 0 /\ l < nbits THEN l ELSE nbits)

supernetIPv4(subs) ==
    LET m == mask32(subs[1].nbits)
        base == BitAnd(subs[1].lo, m)
        nbits == supernetIPv4Len(subs, 2, base, m, subs[1].nbits)
    IN  IF nbits = 0 THEN NilPrefix ELSE newIPv4(subs[1].lo, nbits)

RECURSIVE supernetIPv6Len(_, _, _, _, _)
supernetIPv6Len(subs, i, base, m, nbits) ==
    IF i > Len(subs) THEN nbits
    ELSE LET d0 == BitAnd(BitXor(base[1], subs[i].hi), m[1])
             d1 == BitAnd(BitXor(base[2], subs[i].lo), m[2])
         IN  supernetIPv6Len(subs, i + 1, base, m,
                 IF d0 # 0 THEN (IF nlz64(d0) < nbits THEN nlz64(d0) ELSE nbits)
                 ELSE IF d1 # 0
                 THEN (IF HalfLen + nlz64(d1) < nbits THEN HalfLen + nlz64(d1) ELSE nbits)
                 ELSE nbits)

supernetIPv6(subs) ==
    LET m == setNetmask(subs[1].nbits)
        base == << BitAnd(subs[1].hi, m[1]), BitAnd(subs[1].lo, m[2]) >>
        nbits == supernetIPv6Len(subs, 2, base, m, subs[1].nbits)
    IN  IF nbits = 0 THEN NilPrefix ELSE newIPv6(<< subs[1].hi, subs[1].lo >>, nbits)

\* Supernet: the returned prefix as a list of one, status "nil" for nil
Supernet(prefixes) ==
    IF prefixes = << >> THEN [st |-> "nil", subs |-> << >>]
    ELSE LET subs == IF prefixes[1].fam = 4 THEN ipv4Only(prefixes) ELSE ipv6Only(prefixes)
             s == IF Len(subs) = 1 THEN subs[1]
                  ELSE IF prefixes[1].fam = 4 THEN supernetIPv4(subs)
                  ELSE supernetIPv6(subs)
         IN  IF Len(subs) = 0 \/ s = NilPrefix THEN [st |-> "nil", subs |-> << >>]
             ELSE [st |-> "ok", subs |-> << s >>]

\* the count n of ascendIPv4 for one branching factor bf
ascendIPv4Count(subs, bf) ==
    LET base == subs[1]
        m == mask32(base.nbits)
        maggr == Shl(m, bf, IPv4PrefixLen)
        aggr(pat) == BitOr(BitAnd(base.lo, maggr),
                           Shl(pat, IPv4PrefixLen - base.nbits, IPv4PrefixLen))
    IN  Cardinality({pi \in (0 .. (2^bf - 1)) \X (1 .. Len(subs)) :
                        aggr(pi[1]) = BitAnd(subs[pi[2]].lo, m)})

RECURSIVE ascendIPv4Loop(_, _, _, _)
ascendIPv4Loop(subs, bf, lastBF, lastN) ==
    IF bf < IPv4PrefixLen
    THEN LET c == ascendIPv4Count(subs, bf)
         IN  IF c < 2^bf THEN << lastBF, lastN >>
             ELSE ascendIPv4Loop(subs, bf + 1, bf, c)
    ELSE << lastBF, lastN >>

ascendIPv4(subs) == ascendIPv4Loop(subs, 1, 0, 0)

\* the prefixes at the head of subs whose address the supernet q contains
RECURSIVE SkipContained4(_, _)
SkipContained4(subs, q) ==
    IF subs = << >> \/ ~IPv4contains(q, subs[1].lo) THEN subs
    ELSE SkipContained4(Tail(subs), q)

\* The slice subs[:m] panics when m is beyond the capacity of subs; the
\* model takes the capacity to be the length.
RECURSIVE aggregateIPv4Loop(_, _)
aggregateIPv4Loop(subs, aggrs) ==
    IF Len(subs) > 0
    THEN IF subs[1].nbits = 0 THEN aggregateIPv4Loop(Tail(subs), Append(aggrs, subs[1]))
         ELSE LET bn == ascendIPv4(subs)
                  m == 2^bn[1]
              IN  IF bn[2] < m THEN aggregateIPv4Loop(Tail(subs), Append(aggrs, subs[1]))
                  ELSE IF m > Len(subs) THEN [st |-> "panic", subs |-> << >>]
                  ELSE LET q == supernetIPv4(SubSeq(subs, 1, m))
                           rest == SubSeq(subs, m + 1, Len(subs))
                       IN  IF q = NilPrefix /\ rest # << >>
                           THEN [st |-> "panic", subs |-> << >>]
                           ELSE IF q = NilPrefix
                           THEN [st |-> "ok", subs |-> Append(aggrs, q)]
                           ELSE aggregateIPv4Loop(SkipContained4(rest, q), Append(aggrs, q))
    ELSE [st |-> "ok", subs |-> aggrs]

aggregateIPv4(subs) == aggregateIPv4Loop(subs, << >>)

ascendIPv6Count(subs, bf) ==
    LET base == subs[1]
        m == setNetmask(base.nbits)
        maggr == setNetmask(base.nbits - bf)
        aggr(pat) ==
            LET npat == lshift(pat, IPv6PrefixLen - base.nbits)
            IN  << BitOr(BitAnd(base.hi, maggr[1]), npat[1]),
                   BitOr(BitAnd(base.lo, maggr[2]), npat[2]) >>
        \* the patterns below max = 1 << bf, as ipv6Int values
        pats == {<< v \div 2^HalfLen, v % 2^HalfLen >> : v \in 0 .. (2^bf - 1)}
    IN  Cardinality({pi \in pats \X (1 .. Len(subs)) :
                        aggr(pi[1]) = << BitAnd(subs[pi[2]].hi, m[1]),
                                         BitAnd(subs[pi[2]].lo, m[2]) >>})

RECURSIVE ascendIPv6Loop(_, _, _, _)
ascendIPv6Loop(subs, bf, lastBF, lastN) ==
    IF bf < IPv6PrefixLen
    THEN LET c == ascendIPv6Count(subs, bf)
         IN  IF c < 2^bf THEN << lastBF, lastN >>
             ELSE ascendIPv6Loop(subs, bf + 1, bf, c)
    ELSE << lastBF, lastN >>

ascendIPv6(subs) == ascendIPv6Loop(subs, 1, 0, 0)

RECURSIVE SkipContained6(_, _)
SkipContained6(subs, q) ==
    IF subs = << >> \/ ~IPv6contains(q, << subs[1].hi, subs[1].lo >>) THEN subs
    ELSE SkipContained6(Tail(subs), q)

RECURSIVE aggregateIPv6Loop(_, _)
aggregateIPv6Loop(subs, aggrs) ==
    IF Len(subs) > 0
    THEN IF subs[1].nbits = 0 THEN aggregateIPv6Loop(Tail(subs), Append(aggrs, subs[1]))
         ELSE LET bn == ascendIPv6(subs)
                  m == 2^bn[1]
              IN  IF bn[2] < m THEN aggregateIPv6Loop(Tail(subs), Append(aggrs, subs[1]))
                  ELSE IF m > Len(subs) THEN [st |-> "panic", subs |-> << >>]
                  ELSE LET q == supernetIPv6(SubSeq(subs, 1, m))
                           rest == SubSeq(subs, m + 1, Len(subs))
                       IN  IF q = NilPrefix /\ rest # << >>
                           THEN [st |-> "panic", subs |-> << >>]
                           ELSE IF q = NilPrefix
                           THEN [st |-> "ok", subs |-> Append(aggrs, q)]
                           ELSE aggregateIPv6Loop(SkipContained6(rest, q), Append(aggrs, q))
    ELSE [st |-> "ok", subs |-> aggrs]

aggregateIPv6(subs) == aggregateIPv6Loop(subs, << >>)

Aggregate(prefixes) ==
    IF prefixes = << >> THEN [st |-> "ok", subs |-> << >>]
    ELSE LET subs == sortAndDedup(prefixes)
         IN  IF Len(subs) <= 1 THEN [st |-> "ok", subs |-> subs]
             ELSE IF prefixes[1].fam = 4 THEN aggregateIPv4(subs)
             ELSE aggregateIPv6(subs)

\* The caller's list after a call of ipv4Only or ipv6Only on it: nps := ps[:0]
\* shares the array of ps, so the kept prefixes are stored at its front and
\* the elements behind them stay
familyOnlyArg(l, fam) ==
    LET nps == IF fam = 4 THEN ipv4Only(l) ELSE ipv6Only(l)
    IN  [i \in 1 .. Len(l) |-> IF i <= Len(nps) THEN nps[i] ELSE l[i]]

\* The caller's list after sortAndDedup(ps): the prefixes of the family of
\* ps[0] are moved to the front, sorted there, and the ones left by the dedup
\* loop are stored over them from the front
sortAndDedupArg(l) ==
    LET fam == l[1].fam
        k == Len(IF fam = 4 THEN ipv4Only(l) ELSE ipv6Only(l))
        filtered == familyOnlyArg(l, fam)
        sorted == Sort(SubSeq(filtered, 1, k))
        nps == Dedup(sorted)
    IN  [i \in 1 .. Len(l) |->
            IF i <= Len(nps) THEN nps[i]
            ELSE IF i <= k THEN sorted[i]
            ELSE filtered[i]]

\* the caller's list after Supernet(prefixes)
SupernetArg(prefixes) ==
    IF prefixes = << >> THEN prefixes
    ELSE familyOnlyArg(prefixes, prefixes[1].fam)

\* the caller's list after Aggregate(prefixes); aggregateIPv4 and
\* aggregateIPv6 only read the list
AggregateArg(prefixes) ==
    IF prefixes = << >> THEN prefixes
    ELSE sortAndDedupArg(prefixes)

(***************************************************************************)
(* net.IP values: [len, hi, lo] with len 4 (a 4-byte address, in lo) or    *)
(* len 16 (hi and lo are the two words); NilIP is the nil slice.  An       *)
(* IPv4-mapped 16-byte address carries the IPv4 address in its low         *)
(* IPv4PrefixLen bits under the tag 0...01 (::ffff:a.b.c.d in the source). *)
(***************************************************************************)
NilIP == [len |-> 0, hi |-> 0, lo |-> 0]

\* no iterator
NilIter == [open |-> FALSE, cur |-> NilIP]

IP4(a) == [len |-> 4, hi |-> 0, lo |-> a]

IP16(i) == [len |-> 16, hi |-> i[1], lo |-> i[2]]

\* the value of a 16-byte address as one number
Val16(hi, lo) == hi * 2^HalfLen + lo

To4(ip) ==
    IF ip.len = 4 THEN ip
    ELSE IF ip.len = 16 /\ Val16(ip.hi, ip.lo) \div 2^IPv4PrefixLen = 1
    THEN IP4(Val16(ip.hi, ip.lo) % 2^IPv4PrefixLen)
    ELSE NilIP

To16(ip) ==
    IF ip.len = 4
    THEN IP16(<< (2^IPv4PrefixLen + ip.lo) \div 2^HalfLen, (2^IPv4PrefixLen + ip.lo) % 2^HalfLen >>)
    ELSE IF ip.len = 16 THEN ip
    ELSE NilIP

IPs == {IP4(a) : a \in V4Addrs} \cup {IP16(i) : i \in V6Addrs}

\* NewPrefix: the new prefix, or NilPrefix with errInvalidArgument
NewPrefix(ip, nbits) ==
    IF To4(ip) # NilIP /\ 0 <= nbits /\ nbits <= IPv4PrefixLen
    THEN newIPv4(To4(ip).lo, nbits)
    ELSE IF To16(ip) # NilIP /\ To4(To16(ip)) = NilIP /\ 0 <= nbits /\ nbits <= IPv6PrefixLen
    THEN newIPv6(<< To16(ip).hi, To16(ip).lo >>, nbits)
    ELSE NilPrefix

\* every prefix NewPrefix can return
Prefixes == {NewPrefix(ip, l) : ip \in IPs, l \in 0 .. IPv6PrefixLen} \ {NilPrefix}

\* Contains: "true", "false", or "panic" when the conversion of a nil
\* address indexes an empty slice
Contains(q, ip) ==
    IF q.fam = 4
    THEN IF To4(ip) = NilIP THEN "panic"
         ELSE IF IPv4contains(q, To4(ip).lo) THEN "true" ELSE "false"
    ELSE IF To16(ip) = NilIP THEN "panic"
         ELSE IF IPv6contains(q, << To16(ip).hi, To16(ip).lo >>) THEN "true" ELSE "false"

ipToIPv6Int(ip) == << ip.hi, ip.lo >>

(***************************************************************************)
(* Hosts and HostIter.  A result is [st, hosts]; st is "panic" when the     *)
(* conversion of a nil address indexes an empty slice.  The iterators are   *)
(* run against a consumer that takes every element as soon as it is         *)
(* offered, so the idle timer never fires.                                  *)
(***************************************************************************)
IPv4isDefaultRoute(q) == q.lo = 0 /\ q.nbits = 0

IPv4isNetworkAddr(q, i) == IF q.nbits = IPv4PrefixLen THEN FALSE ELSE q.lo = i

IPv4isHostAssignable(q, i) ==
    IF IPv4isLimitedBroadcastAddr(i)
    THEN (IF IPv4isDefaultRoute(q) THEN [ok |-> TRUE, eor |-> TRUE]
          ELSE [ok |-> FALSE, eor |-> TRUE])
    ELSE IF IPv4isBroadcastAddr(q, i) THEN [ok |-> FALSE, eor |-> TRUE]
    ELSE IF IPv4isNetworkAddr(q, i) THEN [ok |-> FALSE, eor |-> FALSE]
    ELSE [ok |-> TRUE, eor |-> FALSE]

\* one iteration of the loop of (*ipv4HostIter).run, the send taken at
\* once: whether the loop goes on, the new cur, and what was sent
ipv4HostIterStep(q, cur) ==
    IF ~IPv4contains(q, cur) THEN [open |-> FALSE, cur |-> cur, send |-> << >>]
    ELSE IF IPv4isHostAssignable(q, cur).eor THEN [open |-> FALSE, cur |-> cur, send |-> << >>]
    ELSE LET nx == (cur + 1) % 2^IPv4PrefixLen
         IN  [open |-> TRUE, cur |-> nx,
              send |-> IF IPv4isHostAssignable(q, nx).ok THEN << IP4(nx) >> ELSE << >>]

\* the whole loop
RECURSIVE ipv4HostIterRun(_, _, _)
ipv4HostIterRun(q, cur, out) ==
    LET s == ipv4HostIterStep(q, cur)
    IN  IF s.open THEN ipv4HostIterRun(q, s.cur, out \o s.send) ELSE out

\* HostIter: the iterator as it starts
IPv4HostIter(q, first) ==
    IF first.len # 0
    THEN IF To4(first) = NilIP THEN [st |-> "panic", iter |-> NilIter]
         ELSE [st |-> "ok", iter |-> [open |-> TRUE, cur |-> To4(first)]]
    ELSE [st |-> "ok", iter |-> [open |-> TRUE, cur |-> IP4(q.lo)]]

\* the loop of Hosts for the short ranges
RECURSIVE IPv4HostsLoop(_, _, _)
IPv4HostsLoop(q, cur, hosts) ==
    IF ~IPv4contains(q, cur) THEN hosts
    ELSE IF IPv4isHostAssignable(q, cur).eor THEN hosts
    ELSE LET nx == (cur + 1) % 2^IPv4PrefixLen
         IN  IPv4HostsLoop(q, nx,
                 IF IPv4isHostAssignable(q, nx).ok THEN Append(hosts, IP4(nx)) ELSE hosts)

IPv4Hosts(q, begin) ==
    IF IPv4isDefaultRoute(q) THEN [st |-> "ok", hosts |-> << >>]
    ELSE IF begin.len # 0 /\ To4(begin) = NilIP THEN [st |-> "panic", hosts |-> << >>]
    ELSE LET cur == IF begin.len # 0 THEN To4(begin).lo ELSE q.lo
             hosts == IF IPv4isHostAssignable(q, cur).ok /\ IPv4contains(q, cur)
                      THEN << IP4(cur) >> ELSE << >>
         IN  IF IPv4PrefixLen - q.nbits < LazyMin
             THEN [st |-> "ok", hosts |-> IPv4HostsLoop(q, cur, hosts)]
             ELSE [st |-> "ok",
                   hosts |-> ipv4HostIterRun(q, IPv4HostIter(q, begin).iter.cur.lo, hosts)]

IPv6isDefaultRoute(q) == q.hi = 0 /\ q.lo = 0 /\ q.nbits = 0

IPv6isSubnetRouterAnycastAddr(q, i) ==
    IF q.nbits = IPv6PrefixLen THEN FALSE ELSE << q.hi, q.lo >> = i

\* isHostAssignable that refuses the last address of the prefix
IPv6isHostAssignableNoLast(q, i) ==
    IF IPv6isLastAddr(q, i) THEN [ok |-> FALSE, eor |-> TRUE]
    ELSE IF IPv6isSubnetRouterAnycastAddr(q, i) THEN [ok |-> FALSE, eor |-> FALSE]
    ELSE [ok |-> TRUE, eor |-> FALSE]

IPv6isHostAssignable(q, i) ==
    IF IPv6isLastAddr(q, i) THEN [ok |-> TRUE, eor |-> TRUE]
    ELSE IF IPv6isSubnetRouterAnycastAddr(q, i) THEN [ok |-> FALSE, eor |-> FALSE]
    ELSE [ok |-> TRUE, eor |-> FALSE]

\* one iteration of the loop of (*ipv6HostIter).run, the send taken at
\* once: whether the loop goes on, the new cur, and what was sent
ipv6HostIterStep(q, cur) ==
    IF ~IPv6contains(q, cur) THEN [open |-> FALSE, cur |-> cur, send |-> << >>]
    ELSE IF IPv6isHostAssignable(q, cur).eor THEN [open |-> FALSE, cur |-> cur, send |-> << >>]
    ELSE LET nx == incr(cur)
         IN  [open |-> TRUE, cur |-> nx,
              send |-> IF IPv6isHostAssignable(q, nx).ok THEN << IP16(nx) >> ELSE << >>]

\* the whole loop
RECURSIVE ipv6HostIterRun(_, _, _)
ipv6HostIterRun(q, cur, out) ==
    LET s == ipv6HostIterStep(q, cur)
    IN  IF s.open THEN ipv6HostIterRun(q, s.cur, out \o s.send) ELSE out

\* HostIter: the iterator as it starts
IPv6HostIter(q, first) ==
    IF first.len # 0
    THEN IF To16(first) = NilIP THEN [st |-> "panic", iter |-> NilIter]
         ELSE [st |-> "ok", iter |-> [open |-> TRUE, cur |-> To16(first)]]
    ELSE [st |-> "ok", iter |-> [open |-> TRUE, cur |-> IP16(<< q.hi, q.lo >>)]]

\* the loop of Hosts for the short ranges
RECURSIVE IPv6HostsLoop(_, _, _)
IPv6HostsLoop(q, cur, hosts) ==
    IF ~IPv6contains(q, cur) THEN hosts
    ELSE IF IPv6isHostAssignable(q, cur).eor THEN hosts
    ELSE LET nx == incr(cur)
         IN  IPv6HostsLoop(q, nx,
                 IF IPv6isHostAssignable(q, nx).ok THEN Append(hosts, IP16(nx)) ELSE hosts)

IPv6Hosts(q, begin) ==
    IF IPv6isDefaultRoute(q) THEN [st |-> "ok", hosts |-> << >>]
    ELSE IF begin.len # 0 /\ To16(begin) = NilIP THEN [st |-> "panic", hosts |-> << >>]
    ELSE LET cur == IF begin.len # 0 THEN ipToIPv6Int(To16(begin)) ELSE << q.hi, q.lo >>
             hosts == IF IPv6isHostAssignable(q, cur).ok /\ IPv6contains(q, cur)
                      THEN << IP16(cur) >> ELSE << >>
         IN  IF IPv6PrefixLen - q.nbits < LazyMin
             THEN [st |-> "ok", hosts |-> IPv6HostsLoop(q, cur, hosts)]
             ELSE [st |-> "ok",
                   hosts |-> ipv6HostIterRun(q, ipToIPv6Int(IPv6HostIter(q, begin).iter.cur), hosts)]

Hosts(q, begin) == IF q.fam = 4 THEN IPv4Hosts(q, begin) ELSE IPv6Hosts(q, begin)

HostIter(q, first) == IF q.fam = 4 THEN IPv4HostIter(q, first) ELSE IPv6HostIter(q, first)

\* one iteration of the iterator's loop, cur kept as an address
HostIterStep(q, it) ==
    IF q.fam = 4
    THEN LET s == ipv4HostIterStep(q, it.cur.lo)
         IN  [open |-> s.open, cur |-> IP4(s.cur), send |-> s.send]
    ELSE LET s == ipv6HostIterStep(q, ipToIPv6Int(it.cur))
         IN  [open |-> s.open, cur |-> IP16(s.cur), send |-> s.send]

Exclude(q, xx) == IF q.fam = 4 THEN IPv4Exclude(q, xx) ELSE IPv6Exclude(q, xx)

Subnets(q, nb) == IF q.fam = 4 THEN IPv4Subnets(q, nb) ELSE IPv6Subnets(q, nb)

\* what a consumer receives from SubnetIter until the channel is closed
SubnetIter(q, nb) == IF q.fam = 4 THEN IPv4SubnetIter(q, nb) ELSE IPv6SubnetIter(q, nb)

\* Summarize for a first address of the IPv4 family
Summarize(first, last) ==
    IF To4(last) = NilIP THEN << >> ELSE summarizeIPv4(To4(first).lo, To4(last).lo)

\* Set: the receiver after the call and whether errInvalidArgument came back;
\* on an error the receiver is left as it was
\* Set that takes any 16-byte form for an IPv6 prefix
SetAnySixteen(q, ip, nbits) ==
    IF q.fam = 4
    THEN IF To4(ip) # NilIP /\ 0 <= nbits /\ nbits <= IPv4PrefixLen
         THEN [st |-> "ok", p |-> newIPv4(To4(ip).lo, nbits)]
         ELSE [st |-> "error", p |-> q]
    ELSE IF To16(ip) # NilIP /\ 0 <= nbits /\ nbits <= IPv6PrefixLen
         THEN [st |-> "ok", p |-> newIPv6(<< To16(ip).hi, To16(ip).lo >>, nbits)]
         ELSE [st |-> "error", p |-> q]

Set(q, ip, nbits) ==
    IF q.fam = 4
    THEN IF To4(ip) # NilIP /\ 0 <= nbits /\ nbits <= IPv4PrefixLen
         THEN [st |-> "ok", p |-> newIPv4(To4(ip).lo, nbits)]
         ELSE [st |-> "error", p |-> q]
    ELSE IF To16(ip) # NilIP /\ To4(To16(ip)) = NilIP /\ 0 <= nbits /\ nbits <= IPv6PrefixLen
         THEN [st |-> "ok", p |-> newIPv6(<< To16(ip).hi, To16(ip).lo >>, nbits)]
         ELSE [st |-> "error", p |-> q]

(***************************************************************************)
(* The Cursor.  Its prefixes carry a 16-byte address, an IPv4 address in   *)
(* its IPv4-mapped form, and a mask; curr and last are ipv6Int pairs.      *)
(***************************************************************************)
NilCursor == [curr |-> << 0, 0 >>, last |-> << 0, 0 >>, pi |-> 0, ps |-> << >>]

NilPos == [ip |-> NilIP, prefix |-> NilPrefix]

\* the 16-byte IP field of a prefix
PrefixIP(q) == IF q.fam = 4 THEN To16(IP4(q.lo)) ELSE IP16(<< q.hi, q.lo >>)

\* bytes.Compare of two byte strings of one length, given as numbers
bytesCompare(a, b) == IF a < b THEN -1 ELSE IF a > b THEN 1 ELSE 0

\* compareAscending with the two comparisons in the order of compareDescending
compareMaskFirst(a, b) ==
    LET nn == bytesCompare(a.nbits, b.nbits)
    IN  IF nn # 0 THEN nn
        ELSE bytesCompare(Val16(PrefixIP(a).hi, PrefixIP(a).lo),
                          Val16(PrefixIP(b).hi, PrefixIP(b).lo))

\* compares the IP fields, then the masks; of two masks on one address the
\* longer has the larger bytes
compareAscending(a, b) ==
    LET nn == bytesCompare(Val16(PrefixIP(a).hi, PrefixIP(a).lo),
                           Val16(PrefixIP(b).hi, PrefixIP(b).lo))
    IN  IF nn # 0 THEN nn ELSE bytesCompare(a.nbits, b.nbits)

\* sort.Sort(byAscending(pps)) on a copy of the list
RECURSIVE InsertAscending(_, _)
InsertAscending(sorted, q) ==
    IF sorted = << >> THEN << q >>
    ELSE IF compareAscending(q, Head(sorted)) < 0 THEN << q >> \o sorted
    ELSE << Head(sorted) >> \o InsertAscending(Tail(sorted), q)

RECURSIVE SortAscending(_)
SortAscending(l) ==
    IF l = << >> THEN << >> ELSE InsertAscending(SortAscending(Tail(l)), Head(l))

\* (*Prefix).Equal: the same address and mask
PrefixEqual(a, b) == PrefixIP(a) = PrefixIP(b) /\ a.nbits = b.nbits

RECURSIVE DedupEqual(_)
DedupEqual(l) ==
    IF Len(l) <= 1 THEN l
    ELSE LET d == DedupEqual(SubSeq(l, 1, Len(l) - 1))
         IN  IF PrefixEqual(l[Len(l) - 1], l[Len(l)]) THEN d ELSE Append(d, l[Len(l)])

\* sortAndDedup(ps, 'a', false): every family kept, ascending
sortAndDedupAscending(l) == IF Len(l) = 0 THEN << >> ELSE DedupEqual(SortAscending(l))

\* lastIPv4MappedInt and lastIPv6Int: the last address of the prefix as an ipv6Int
lastInt(q) ==
    IF q.fam = 4 THEN ipToIPv6Int(To16(IP4(IPv4lastAddr(q))))
    ELSE IPv6lastAddr(q)

\* a set that keeps the last address cached for the prefix it leaves
CursorSetStaleLast(cc, pi, ip) ==
    [cc EXCEPT !.pi = pi, !.curr = ipToIPv6Int(To16(ip))]

\* (*Cursor).set
CursorSet(cc, pi, ip) ==
    [cc EXCEPT !.pi = pi, !.curr = ipToIPv6Int(To16(ip)), !.last = lastInt(cc.ps[pi])]

\* (*Cursor).next
CursorNextPrefix(cc) ==
    [cc EXCEPT !.pi = cc.pi + 1,
               !.curr = ipToIPv6Int(To16(PrefixIP(cc.ps[cc.pi + 1]))),
               !.last = lastInt(cc.ps[cc.pi + 1])]

Pos(cc) == [ip |-> IP16(cc.curr), prefix |-> cc.ps[cc.pi]]

\* Next that steps past the end before it returns nil
NextPastEnd(cc) ==
    IF cmp(cc.curr, cc.last) = 0
    THEN IF cc.pi = Len(cc.ps) THEN [c |-> [cc EXCEPT !.curr = incr(cc.curr)], pos |-> NilPos]
         ELSE [c |-> CursorNextPrefix(cc), pos |-> Pos(CursorNextPrefix(cc))]
    ELSE LET c2 == [cc EXCEPT !.curr = incr(cc.curr)]
         IN  [c |-> c2, pos |-> Pos(c2)]

\* (*Cursor).Next: the cursor after the call and the position returned, NilPos for nil
Next(cc) ==
    IF cmp(cc.curr, cc.last) = 0
    THEN IF cc.pi = Len(cc.ps) THEN [c |-> cc, pos |-> NilPos]
         ELSE [c |-> CursorNextPrefix(cc), pos |-> Pos(CursorNextPrefix(cc))]
    ELSE LET c2 == [cc EXCEPT !.curr = incr(cc.curr)]
         IN  [c |-> c2, pos |-> Pos(c2)]

\* the caller's list after sortAndDedup(ps, 'a', false) had sorted the
\* argument itself instead of a copy
sortAndDedupAscendingInPlace(l) == SortAscending(l)

\* the caller's list after sortAndDedup(ps, 'a', false): pps is a new slice
\* filled from ps, and the sort and the dedup loop write to pps only
sortAndDedupAscendingArg(l) ==
    LET pps == [i \in 1 .. Len(l) |-> l[i]]
        sorted == SortAscending(pps)
    IN  l

NewCursor(l) ==
    IF Len(l) = 0 \/ Len(sortAndDedupAscending(l)) = 0 THEN NilCursor
    ELSE CursorSet([NilCursor EXCEPT !.ps = sortAndDedupAscending(l)], 1,
                   PrefixIP(sortAndDedupAscending(l)[1]))

\* net.IPNet.Contains on the prefix's network: the address is of the
\* prefix's family, an IPv4-mapped address counting as IPv4, and its masked
\* bits are the network's
IPNetContains(q, ip) ==
    IF q.fam = 4 THEN To4(ip) # NilIP /\ IPv4contains(q, To4(ip).lo)
    ELSE ip.len = 16 /\ To4(ip) = NilIP /\ IPv6contains(q, << ip.hi, ip.lo >>)

\* the search loop of (*Cursor).Set: the first index whose prefix equals q,
\* 0 for none
CursorFind(l, q) ==
    IF \E i \in DOMAIN l : PrefixEqual(l[i], q)
    THEN CHOOSE i \in DOMAIN l :
             PrefixEqual(l[i], q) /\ \A j \in 1 .. (i - 1) : ~PrefixEqual(l[j], q)
    ELSE 0

\* (*Cursor).Set that does not ask whether the prefix contains the address
CursorSetPosUnchecked(cc, pos) ==
    IF pos = NilPos THEN [st |-> "error", c |-> cc]
    ELSE LET pi == CursorFind(cc.ps, pos.prefix)
         IN  IF pi = 0 THEN [st |-> "error", c |-> cc]
             ELSE [st |-> "ok", c |-> CursorSet(cc, pi, To16(pos.ip))]

\* (*Cursor).Set: the error or nil, and the cursor after the call
CursorSetPos(cc, pos) ==
    IF pos = NilPos THEN [st |-> "error", c |-> cc]
    ELSE LET pi == CursorFind(cc.ps, pos.prefix)
         IN  IF pi = 0 \/ ~IPNetContains(cc.ps[pi], pos.ip) THEN [st |-> "error", c |-> cc]
             ELSE [st |-> "ok", c |-> CursorSet(cc, pi, To16(pos.ip))]

(***************************************************************************)
(* The calls.  Each specification draws the arguments of one operation in  *)
(* its initial states and applies the operation in one step.               *)
(***************************************************************************)
InitExclude ==
    /\ op = "init" /\ p \in Prefixes /\ x \in Prefixes
    /\ n = 0 /\ ps = << >> /\ a1 = NilIP /\ a2 = NilIP /\ ret = << >> /\ st = "init"
    /\ cursor = NilCursor /\ visited = << >> /\ iter = NilIter

DoExclude ==
    /\ op = "init" /\ x # NilPrefix
    /\ op' = "Exclude" /\ UNCHANGED << cursor, visited, iter >>
    /\ ret' = Exclude(p, x).subs
    /\ st' = Exclude(p, x).st
    /\ UNCHANGED << p, x, n, ps, a1, a2 >>

SpecExclude == InitExclude /\ [][DoExclude]_vars

InitSubnets ==
    /\ op = "init" /\ p \in Prefixes /\ n \in -1 .. MaxSubnetBits
    /\ x = NilPrefix /\ ps = << >> /\ a1 = NilIP /\ a2 = NilIP /\ ret = << >> /\ st = "init"
    /\ cursor = NilCursor /\ visited = << >> /\ iter = NilIter

DoSubnets ==
    /\ op = "init" /\ x = NilPrefix /\ p # NilPrefix
    /\ op' = "Subnets" /\ UNCHANGED << cursor, visited, iter >>
    /\ ret' = Subnets(p, n)
    /\ st' = "ok"
    /\ UNCHANGED << p, x, n, ps, a1, a2 >>

\* ret := everything received from p.SubnetIter(n)
DoSubnetIter ==
    /\ op = "init" /\ x = NilPrefix /\ p # NilPrefix
    /\ op' = "SubnetIter" /\ UNCHANGED << cursor, visited, iter >>
    /\ ret' = SubnetIter(p, n)
    /\ st' = "ok"
    /\ UNCHANGED << p, x, n, ps, a1, a2 >>

\* Aggregate applied to the list Subnets returned.  The list is shorter than
\* half the address space, as every list that fits in memory is at the
\* source's widths, where ascend's largest count exceeds any list.
DoSubnetsAggregate ==
    /\ op = "Subnets"
    /\ Len(ret) < 2^((IF p.fam = 4 THEN IPv4PrefixLen ELSE IPv6PrefixLen) - 1)
    /\ op' = "SubnetsAggregate" /\ UNCHANGED << cursor, visited, iter >>
    /\ ps' = ret
    /\ ret' = Aggregate(ret).subs
    /\ st' = Aggregate(ret).st
    /\ UNCHANGED << p, x, n, a1, a2 >>

\* Supernet applied to the list Subnets returned
DoSubnetsSupernet ==
    /\ op = "Subnets"
    /\ op' = "SubnetsSupernet" /\ UNCHANGED << cursor, visited, iter >>
    /\ ps' = ret
    /\ ret' = Supernet(ret).subs
    /\ st' = Supernet(ret).st
    /\ UNCHANGED << p, x, n, a1, a2 >>

SpecSubnets ==
    InitSubnets /\ [][DoSubnets \/ DoSubnetIter \/ DoSubnetsAggregate \/ DoSubnetsSupernet]_vars

InitSummarize ==
    /\ op = "init" /\ a1 \in {ip \in IPs : To4(ip) # NilIP} /\ a2 \in IPs
    /\ p = NilPrefix /\ x = NilPrefix /\ n = 0 /\ ps = << >> /\ ret = << >> /\ st = "init"
    /\ cursor = NilCursor /\ visited = << >> /\ iter = NilIter

DoSummarize ==
    /\ op = "init" /\ a1 # NilIP
    /\ op' = "Summarize" /\ UNCHANGED << cursor, visited, iter >>
    /\ ret' = Summarize(a1, a2)
    /\ st' = "ok"
    /\ UNCHANGED << p, x, n, ps, a1, a2 >>

SpecSummarize == InitSummarize /\ [][DoSummarize]_vars

\* the non-empty lists of prefixes of one family given to Supernet and Aggregate
SameFamilyLists ==
    UNION {[1 .. k -> {q \in Prefixes : q.fam = 4}] : k \in 1 .. MaxList}
    \cup UNION {[1 .. k -> {q \in Prefixes : q.fam = 6}] : k \in 1 .. (MaxList - 1)}

InitSets ==
    /\ op = "init" /\ ps \in SameFamilyLists
    /\ p = NilPrefix /\ x = NilPrefix /\ n = 0 /\ a1 = NilIP /\ a2 = NilIP
    /\ ret = << >> /\ st = "init"
    /\ cursor = NilCursor /\ visited = << >> /\ iter = NilIter

DoAggregate ==
    /\ op = "init" /\ ps # << >>
    /\ op' = "Aggregate" /\ UNCHANGED << cursor, visited, iter >>
    /\ ret' = Aggregate(ps).subs
    /\ st' = Aggregate(ps).st
    /\ ps' = AggregateArg(ps)
    /\ UNCHANGED << p, x, n, a1, a2 >>

\* Aggregate applied to the list Aggregate returned
DoAggregateAggregate ==
    /\ op = "Aggregate" /\ st = "ok"
    /\ op' = "AggregateAggregate" /\ UNCHANGED << cursor, visited, iter >>
    /\ ps' = ret
    /\ ret' = Aggregate(ret).subs
    /\ st' = Aggregate(ret).st
    /\ UNCHANGED << p, x, n, a1, a2 >>

DoSupernet ==
    /\ op = "init" /\ ps # << >>
    /\ op' = "Supernet" /\ UNCHANGED << cursor, visited, iter >>
    /\ ret' = Supernet(ps).subs
    /\ st' = Supernet(ps).st
    /\ ps' = SupernetArg(ps)
    /\ UNCHANGED << p, x, n, a1, a2 >>

SpecSets == InitSets /\ [][DoAggregate \/ DoAggregateAggregate \/ DoSupernet]_vars

InitContains ==
    /\ op = "init" /\ p \in Prefixes /\ a1 \in IPs
    /\ x = NilPrefix /\ n = 0 /\ ps = << >> /\ a2 = NilIP /\ ret = << >> /\ st = "init"
    /\ cursor = NilCursor /\ visited = << >> /\ iter = NilIter

DoContains ==
    /\ op = "init" /\ p # NilPrefix /\ a1 # NilIP
    /\ op' = "Contains" /\ UNCHANGED << cursor, visited, iter >>
    /\ st' = Contains(p, a1)
    /\ UNCHANGED << p, x, n, ps, a1, a2, ret >>

SpecContains == InitContains /\ [][DoContains]_vars

(***************************************************************************)
(* Sequences of calls: a prefix is constructed, and every later call is    *)
(* made on a prefix or on a list that an earlier call produced.            *)
(***************************************************************************)
InitChain ==
    /\ op = "init" /\ a1 \in IPs /\ n \in -1 .. (IPv6PrefixLen + 1)
    /\ p = NilPrefix /\ x = NilPrefix /\ ps = << >> /\ a2 = NilIP /\ ret = << >> /\ st = "init"
    /\ cursor = NilCursor /\ visited = << >> /\ iter = NilIter

\* a prefix is at hand to call a method on
HasReceiver == op \in {"NewPrefix", "Set", "Pick"} /\ p # NilPrefix

\* a list of prefixes came back from the last call
HasList == op \in {"Subnets", "Exclude", "Summarize", "Supernet", "Aggregate"} /\ ret # << >>

DoNewPrefix ==
    /\ op = "init" /\ a1 # NilIP /\ p = NilPrefix
    /\ op' = "NewPrefix" /\ UNCHANGED << cursor, visited, iter >>
    /\ p' = NewPrefix(a1, n)
    /\ st' = IF NewPrefix(a1, n) = NilPrefix THEN "error" ELSE "ok"
    /\ a1' = NilIP /\ n' = 0
    /\ UNCHANGED << x, ps, a2, ret >>

DoChainSet ==
    /\ HasReceiver
    /\ \E ip \in IPs, k \in -1 .. (IPv6PrefixLen + 1) :
          /\ p' = Set(p, ip, k).p
          /\ st' = Set(p, ip, k).st
    /\ op' = "Set" /\ UNCHANGED << cursor, visited, iter >>
    /\ UNCHANGED << x, n, ps, a1, a2, ret >>

DoChainSubnets ==
    /\ HasReceiver
    /\ \E k \in -1 .. MaxSubnetBits :
          /\ n' = k
          /\ ret' = Subnets(p, k)
    /\ op' = "Subnets" /\ st' = "ok" /\ UNCHANGED << cursor, visited, iter >>
    /\ UNCHANGED << p, x, ps, a1, a2 >>

DoChainExclude ==
    /\ HasReceiver
    /\ \E xx \in Prefixes :
          /\ x' = xx
          /\ ret' = Exclude(p, xx).subs
          /\ st' = Exclude(p, xx).st
    /\ op' = "Exclude" /\ UNCHANGED << cursor, visited, iter >>
    /\ UNCHANGED << p, n, ps, a1, a2 >>

\* Summarize from the address of the prefix at hand to any address
DoChainSummarize ==
    /\ HasReceiver /\ p.fam = 4
    /\ \E ip \in IPs :
          /\ a2' = ip
          /\ ret' = Summarize(IP4(p.lo), ip)
    /\ a1' = IP4(p.lo)
    /\ op' = "Summarize" /\ st' = "ok" /\ UNCHANGED << cursor, visited, iter >>
    /\ UNCHANGED << p, x, n, ps >>

DoChainSupernet ==
    /\ HasList
    /\ op' = "Supernet" /\ UNCHANGED << cursor, visited, iter >>
    /\ ps' = ret
    /\ ret' = Supernet(ret).subs
    /\ st' = Supernet(ret).st
    /\ p' = NilPrefix /\ x' = NilPrefix /\ n' = 0 /\ a1' = NilIP /\ a2' = NilIP

DoChainAggregate ==
    /\ HasList
    /\ Len(ret) < 2^((IF ret[1].fam = 4 THEN IPv4PrefixLen ELSE IPv6PrefixLen) - 1)
    /\ op' = "Aggregate" /\ UNCHANGED << cursor, visited, iter >>
    /\ ps' = ret
    /\ ret' = Aggregate(ret).subs
    /\ st' = Aggregate(ret).st
    /\ p' = NilPrefix /\ x' = NilPrefix /\ n' = 0 /\ a1' = NilIP /\ a2' = NilIP

\* one prefix of the returned list becomes the receiver of the next call
DoPick ==
    /\ HasList
    /\ \E i \in DOMAIN ret : p' = ret[i]
    /\ op' = "Pick" /\ st' = "ok" /\ UNCHANGED << cursor, visited, iter >>
    /\ x' = NilPrefix /\ n' = 0 /\ ps' = << >> /\ a1' = NilIP /\ a2' = NilIP /\ ret' = << >>

NextChain ==
    \/ DoNewPrefix \/ DoChainSet \/ DoChainSubnets \/ DoChainExclude \/ DoChainSummarize
    \/ DoChainSupernet \/ DoChainAggregate \/ DoPick

SpecChain == InitChain /\ [][NextChain]_vars

(***************************************************************************)
(* A cursor made over a list and moved with Next until Next returns nil.   *)
(***************************************************************************)
\* the lists, of either or both families, given to NewCursor
CursorLists == UNION {[1 .. k -> Prefixes] : k \in 0 .. (MaxList - 1)}

InitCursor ==
    /\ op = "init" /\ ps \in CursorLists
    /\ p = NilPrefix /\ x = NilPrefix /\ n = 0 /\ a1 = NilIP /\ a2 = NilIP
    /\ ret = << >> /\ st = "init"
    /\ cursor = NilCursor /\ visited = << >> /\ iter = NilIter

DoNewCursor ==
    /\ op = "init" /\ cursor = NilCursor
    /\ op' = "NewCursor"
    /\ cursor' = NewCursor(ps)
    /\ ps' = IF Len(ps) = 0 THEN ps ELSE sortAndDedupAscendingArg(ps)
    /\ IF NewCursor(ps) = NilCursor
       THEN st' = "nil" /\ visited' = << >>
       ELSE st' = "ok" /\ visited' = << Pos(NewCursor(ps)) >>
    /\ UNCHANGED << p, x, n, a1, a2, ret, iter >>

DoNext ==
    /\ op \in {"NewCursor", "Next", "End", "CursorSet"} /\ cursor # NilCursor
    /\ cursor' = Next(cursor).c
    /\ IF Next(cursor).pos = NilPos
       THEN op' = "End" /\ st' = "nil" /\ visited' = visited
       ELSE op' = "Next" /\ st' = "ok" /\ visited' = Append(visited, Next(cursor).pos)
    /\ UNCHANGED << p, x, n, ps, a1, a2, ret, iter >>

SpecCursor == InitCursor /\ [][DoNewCursor \/ DoNext]_vars

(***************************************************************************)
(* A cursor moved with Next and placed with Set, in any order.             *)
(***************************************************************************)
\* the prefixes the placed cursors are made of
SetPrefixes ==
    {q \in Prefixes :
        /\ q.nbits >= (IF q.fam = 4 THEN IPv4PrefixLen ELSE IPv6PrefixLen) - SetHostBits
        /\ (q.hi * 2^HalfLen + q.lo) % 2^IPv4PrefixLen < SetAddrs}

SetLists == UNION {[1 .. k -> SetPrefixes] : k \in 1 .. (MaxList - 1)}

\* the positions given to Set: nil, and every pairing of one of the prefixes
\* with the empty address or an address of the same low numbers, in the
\* 4-byte and in the 16-byte form
SetPositions ==
    {NilPos} \cup
    {[ip |-> a, prefix |-> q] : q \in SetPrefixes,
        a \in {NilIP} \cup {b \in IPs : b.lo % 2^IPv4PrefixLen <= SetAddrs
                                        /\ (b.len = 4 \/ b.hi * 2^HalfLen % 2^IPv4PrefixLen = 0)}}

InitCursorSet ==
    /\ op = "init" /\ ps \in SetLists
    /\ p = NilPrefix /\ x = NilPrefix /\ n = 0 /\ a1 = NilIP /\ a2 = NilIP
    /\ ret = << >> /\ st = "init"
    /\ cursor = NilCursor /\ visited = << >> /\ iter = NilIter

\* st := cursor.Set(pos); a cursor that was placed starts a new walk
DoCursorSet ==
    /\ op \in {"NewCursor", "Next", "End", "CursorSet"} /\ cursor # NilCursor
    /\ \E pos \in SetPositions :
          LET r == CursorSetPos(cursor, pos)
          IN  /\ cursor' = r.c
              /\ st' = r.st
              /\ visited' = IF r.st = "ok" THEN << Pos(r.c) >> ELSE visited
    /\ op' = "CursorSet"
    /\ UNCHANGED << p, x, n, ps, a1, a2, ret, iter >>

SpecCursorSet == InitCursorSet /\ [][DoNewCursor \/ DoNext \/ DoCursorSet]_vars

(***************************************************************************)
(* The address sets the properties speak of.                               *)
(***************************************************************************)
Width(q) == IF q.fam = 4 THEN IPv4PrefixLen ELSE IPv6PrefixLen

\* the address of a prefix as one number
Val(q) == q.hi * 2^HalfLen + q.lo

\* the addresses of the block that starts at Val(q) and has the size of a
\* prefix of q's length
Cover(q) == Val(q) .. (Val(q) + 2^(Width(q) - q.nbits) - 1)

CoverOf(l) == UNION {Cover(l[i]) : i \in DOMAIN l}

PairwiseDisjoint(l) ==
    \A i, j \in DOMAIN l : i < j => Cover(l[i]) \cap Cover(l[j]) = {}

Ascending(l) == \A i, j \in DOMAIN l : i < j => Val(l[i]) < Val(l[j])

StrictlyInside(xx, q) == xx.fam = q.fam /\ xx.nbits > q.nbits /\ Val(xx) \in Cover(q)

\* C1: for same-family p and x with x strictly inside p, p.Exclude(x) has
\* x.Len - p.Len prefixes, pairwise disjoint and disjoint from x, whose
\* union is the addresses of p without those of x.
C1_ExcludeLaw ==
    (op = "Exclude" /\ StrictlyInside(x, p)) =>
        /\ st = "ok"
        /\ Len(ret) = x.nbits - p.nbits
        /\ \A i \in DOMAIN ret : ret[i].fam = p.fam
        /\ PairwiseDisjoint(ret)
        /\ CoverOf(ret) \cap Cover(x) = {}
        /\ CoverOf(ret) = Cover(p) \ Cover(x)

C1_Witness ==
    /\ op = "Exclude" /\ StrictlyInside(x, p)
    /\ p.fam = 6 /\ p.nbits = HalfLen - 1 /\ x.nbits = HalfLen + 2 /\ Len(ret) = 3

\* the aligned IPv4 blocks <<start, length>> that lie in lo..hi and whose
\* parent block does not: any list of prefixes with union lo..hi has at
\* least one element inside each of them, and they are pairwise disjoint
MaximalBlocks(lo, hi) ==
    {b \in V4Addrs \X (0 .. IPv4PrefixLen) :
        LET size == 2^(IPv4PrefixLen - b[2])
            up == b[1] - (b[1] % (2 * size))
        IN  /\ b[1] % size = 0
            /\ lo <= b[1] /\ b[1] + size - 1 <= hi
            /\ (b[2] = 0 \/ ~(lo <= up /\ up + 2 * size - 1 <= hi))}

\* C3: for IPv4 addresses first <= last, Summarize(first, last) returns
\* pairwise disjoint prefixes in ascending address order whose union is
\* first..last, and no list of prefixes with that union is shorter.
C3_SummarizeMinimal ==
    (op = "Summarize" /\ To4(a2) # NilIP /\ To4(a1).lo <= To4(a2).lo) =>
        /\ \A i \in DOMAIN ret :
              /\ ret[i].fam = 4 /\ ret[i].nbits \in 0 .. IPv4PrefixLen
              /\ ret[i].lo % 2^(IPv4PrefixLen - ret[i].nbits) = 0
        /\ PairwiseDisjoint(ret)
        /\ Ascending(ret)
        /\ CoverOf(ret) = To4(a1).lo .. To4(a2).lo
        /\ Len(ret) = Cardinality(MaximalBlocks(To4(a1).lo, To4(a2).lo))

C3_Witness ==
    /\ op = "Summarize" /\ a1.len = 4 /\ a2.len = 4
    /\ a1.lo = 1 /\ a2.lo = 2^IPv4PrefixLen - 1
    /\ Len(ret) = IPv4PrefixLen

\* C5: for a prefix of length L and 0 <= n <= width - L, Subnets(n) returns
\* 2^n prefixes of length L+n in strictly ascending address order, pairwise
\* disjoint, whose union is the range of p; for n < 0 or L+n > width it
\* returns the empty list.
C5_Subnets ==
    (op = "Subnets") =>
        IF 0 <= n /\ n <= Width(p) - p.nbits
        THEN /\ Len(ret) = 2^n
             /\ \A i \in DOMAIN ret : ret[i].fam = p.fam /\ ret[i].nbits = p.nbits + n
             /\ Ascending(ret)
             /\ PairwiseDisjoint(ret)
             /\ CoverOf(ret) = Cover(p)
        ELSE ret = << >>

C5_Witness ==
    /\ op = "Subnets" /\ p.fam = 6 /\ p.nbits = HalfLen - 1 /\ n = LazyMin
    /\ Len(ret) = 2^LazyMin

\* C2: for every non-empty same-family list ps, the addresses the result of
\* Aggregate(ps) covers are exactly the addresses ps covers, whenever
\* Aggregate returns.
C2_AggregateCoverage ==
    (op = "Aggregate" /\ st = "ok") => CoverOf(ret) = CoverOf(ps)

\* C4: when Supernet(ps) returns a prefix s for a non-empty same-family
\* list ps, s contains the whole range of every element of ps and no longer
\* prefix of the family contains them all.
C4_SupernetContainsAll ==
    (op = "Supernet" /\ st = "ok") =>
        /\ Len(ret) = 1
        /\ CoverOf(ps) \subseteq Cover(ret[1])
        /\ \A q \in Prefixes :
              (q.fam = ret[1].fam /\ CoverOf(ps) \subseteq Cover(q)) => q.nbits <= ret[1].nbits

\* C9: for every same-family list ps, Aggregate applied to Aggregate(ps)
\* returns Aggregate(ps) element by element, whenever both calls return.
C9_AggregateIdempotent ==
    (op = "AggregateAggregate" /\ st = "ok") => ret = ps

\* C10: for every prefix p and every n with 0 <= n <= width - p.Len,
\* Aggregate(p.Subnets(n)) returns the one-element list [p].
C10_SubnetsAggregate ==
    (op = "SubnetsAggregate" /\ 0 <= n /\ n <= Width(p) - p.nbits) =>
        (st = "ok" /\ ret = << p >>)

\* the family of an address: IPv4 for a 4-byte or an IPv4-mapped address
FamilyOf(ip) == IF To4(ip) # NilIP THEN 4 ELSE 6

\* the address as one number of its family's width
AddrVal(ip) == IF To4(ip) # NilIP THEN To4(ip).lo ELSE Val16(ip.hi, ip.lo)

\* C7: p.Contains(a) returns true iff a is of p's family and a masked with
\* p's netmask is p's address; for an address of the other family it
\* returns false and does not panic.
C7_Contains ==
    (op = "Contains") =>
        st = IF /\ FamilyOf(a1) = p.fam
                /\ AddrVal(a1) - (AddrVal(a1) % 2^(Width(p) - p.nbits)) = Val(p)
             THEN "true" ELSE "false"

\* nbits within the width and no bit set below the prefix length
Normalized(q) ==
    /\ q.fam \in {4, 6}
    /\ 0 <= q.nbits /\ q.nbits <= Width(q)
    /\ 0 <= q.hi /\ 0 <= q.lo /\ q.lo < 2^(IF q.fam = 4 THEN IPv4PrefixLen ELSE HalfLen)
    /\ q.hi < 2^(IF q.fam = 4 THEN 0 ELSE HalfLen)
    /\ Val(q) % 2^(Width(q) - q.nbits) = 0

\* C6: after any sequence of NewPrefix, Set, Subnets, Exclude, Supernet,
\* Aggregate and Summarize, every prefix constructed, set or returned has
\* 0 <= nbits <= width and an address with no bit set below nbits.
C6_Normalized ==
    /\ (p # NilPrefix => Normalized(p))
    /\ \A i \in DOMAIN ret : Normalized(ret[i])

C6_Witness ==
    /\ op = "Aggregate" /\ st = "ok"
    /\ Len(ps) >= 3 /\ Len(ret) = 2 /\ ret[1].fam = 6 /\ ret[2].nbits > HalfLen

NumAddr(q) == 2^(Width(q) - q.nbits)

RECURSIVE SumNumAddr(_)
SumNumAddr(S) ==
    IF S = {} THEN 0
    ELSE LET q == CHOOSE r \in S : TRUE IN NumAddr(q) + SumNumAddr(S \ {q})

\* the distinct prefixes of a list
Distinct(l) == {l[i] : i \in DOMAIN l}

\* lexicographic order of triples of numbers
TripleLess(a, b) ==
    \/ a[1] < b[1]
    \/ a[1] = b[1] /\ a[2] < b[2]
    \/ a[1] = b[1] /\ a[2] = b[2] /\ a[3] < b[3]

\* position a comes before b in family-then-address order: IPv4 before
\* IPv6, within a family by prefix and then by address
FamilyThenAddress(a, b) ==
    \/ a.prefix.fam < b.prefix.fam
    \/ /\ a.prefix.fam = b.prefix.fam
       /\ TripleLess(<< Val(a.prefix), a.prefix.nbits, Val16(a.ip.hi, a.ip.lo) >>,
                     << Val(b.prefix), b.prefix.nbits, Val16(b.ip.hi, b.ip.lo) >>)

\* position a comes before b in the order of the 16-byte addresses, an IPv4
\* address taken in its IPv4-mapped form: by prefix address, then prefix
\* length, then address
MappedOrder(a, b) ==
    TripleLess(<< Val16(PrefixIP(a.prefix).hi, PrefixIP(a.prefix).lo), a.prefix.nbits,
                  Val16(a.ip.hi, a.ip.lo) >>,
               << Val16(PrefixIP(b.prefix).hi, PrefixIP(b.prefix).lo), b.prefix.nbits,
                  Val16(b.ip.hi, b.ip.lo) >>)

\* the position is an address of its prefix, and the prefix is one of the list
OnList(a) ==
    /\ a.prefix \in Distinct(ps)
    /\ Val16(PrefixIP(a.prefix).hi, PrefixIP(a.prefix).lo) <= Val16(a.ip.hi, a.ip.lo)
    /\ Val16(a.ip.hi, a.ip.lo) < Val16(PrefixIP(a.prefix).hi, PrefixIP(a.prefix).lo) + NumAddr(a.prefix)

\* C8 as stated: a new cursor moved with Next until nil visits, with the
\* initial position, as many positions as the deduplicated prefixes have
\* addresses, in ascending family-then-address order, every IPv4 position
\* before every IPv6 position.
C8_CursorFamilyOrder ==
    /\ (op = "End") => Len(visited) = SumNumAddr(Distinct(ps))
    /\ \A i, j \in DOMAIN visited : i < j => FamilyThenAddress(visited[i], visited[j])

\* C8 amended: the count is as stated, every position is an address of a
\* listed prefix, and each position comes after the one before it in the
\* order of the 16-byte IPv4-mapped addresses (prefix address, prefix
\* length, address), which is transitive, so the
\* positions of an IPv6 prefix below the IPv4-mapped block come before every
\* IPv4 position.
C8_CursorMappedOrder ==
    /\ (op = "End") => Len(visited) = SumNumAddr(Distinct(ps))
    /\ \A i \in DOMAIN visited : OnList(visited[i])
    /\ \A i \in 1 .. (Len(visited) - 1) : MappedOrder(visited[i], visited[i + 1])

C8_Witness ==
    /\ op = "End" /\ Len(ps) = 2 /\ ps[1].fam = 4 /\ ps[2].fam = 6
    /\ ps[1].nbits = IPv4PrefixLen - 1 /\ ps[2].nbits = IPv6PrefixLen - 1
    /\ Len(visited) = 4
    /\ visited[1].prefix.fam = 6 /\ visited[4].prefix.fam = 4

\* C11: for every prefix p and every n with 0 <= n <= width - p.Len,
\* Supernet(p.Subnets(n)) returns p.
C11_SubnetsSupernet ==
    (op = "SubnetsSupernet" /\ 0 <= n /\ n <= Width(p) - p.nbits) =>
        (st = "ok" /\ ret = << p >>)


\* x is not contained in q: x is of the other family, or x's address is
\* outside q, or x is strictly shorter than q with its address inside q
NotContainedIn(xx, q) ==
    \/ xx.fam # q.fam
    \/ Val(xx) \notin Cover(q)
    \/ (xx.nbits < q.nbits /\ Val(xx) \in Cover(q))

\* C12: for all prefixes p and x where x is not contained in p, p.Exclude(x)
\* terminates and returns an empty list; the panic of the binary descent is
\* never reached.
C12_ExcludeNotContained ==
    (op = "Exclude" /\ NotContainedIn(x, p)) => (st = "ok" /\ ret = << >>)


\* ---- Compare ----

InitPair ==
    /\ op = "init" /\ p \in Prefixes /\ x \in Prefixes
    /\ n = 0 /\ ps = << >> /\ a1 = NilIP /\ a2 = NilIP /\ ret = << >> /\ st = "init"
    /\ cursor = NilCursor /\ visited = << >> /\ iter = NilIter

\* n := Compare(p, x)
DoCompare ==
    /\ op = "init"
    /\ op' = "Compare" /\ UNCHANGED << cursor, visited, iter >>
    /\ n' = Compare(p, x)
    /\ st' = "ok"
    /\ UNCHANGED << p, x, ps, a1, a2, ret >>

SpecCompare == InitPair /\ [][DoCompare]_vars

\* a.Equal(b)
Equal(a, b) == IF a.fam = 4 THEN IPv4Equal(a, b) ELSE IPv6Equal(a, b)

\* the order the claim describes: IPv4 before IPv6, then address, then length
OrderSign(a, b) ==
    IF a.fam # b.fam THEN (IF a.fam = 4 THEN -1 ELSE 1)
    ELSE IF Val(a) < Val(b) THEN -1
    ELSE IF Val(a) > Val(b) THEN 1
    ELSE IF a.nbits < b.nbits THEN -1
    ELSE IF a.nbits > b.nbits THEN 1
    ELSE 0

\* C13: Compare is a total order on the prefixes of both families:
\* Compare(a,b) = 0 iff a.Equal(b); Compare(a,b) = -Compare(b,a), an IPv4
\* prefix preceding an IPv6 prefix; it is transitive; within one family it
\* orders by address and then by length.
C13_CompareTotalOrder ==
    op = "Compare" =>
        /\ (n = 0) <=> Equal(p, x)
        /\ n = -Compare(x, p)
        /\ n = OrderSign(p, x)
        /\ \A q \in Prefixes :
               (n <= 0 /\ Compare(x, q) <= 0) => Compare(p, q) <= 0


\* ---- Overlaps ----

Overlaps(q, r) == IF q.fam = 4 THEN IPv4Overlaps(q, r) ELSE IPv6Overlaps(q, r)

\* st := p.Overlaps(x)
DoOverlaps ==
    /\ op = "init"
    /\ op' = "Overlaps" /\ UNCHANGED << cursor, visited, iter >>
    /\ st' = IF Overlaps(p, x) THEN "true" ELSE "false"
    /\ UNCHANGED << p, x, n, ps, a1, a2, ret >>

SpecOverlaps == InitPair /\ [][DoOverlaps]_vars

\* C14: for same-family prefixes p.Overlaps(q) = q.Overlaps(p), and it is
\* true iff the ranges Addr..LastAddr of the two share an address; for
\* prefixes of different families Overlaps is false.
C14_Overlaps ==
    op = "Overlaps" =>
        /\ p.fam = x.fam =>
              /\ (st = "true") <=> Overlaps(x, p)
              /\ (st = "true") <=> (Cover(p) \cap Cover(x) # {})
        /\ p.fam # x.fam => st = "false"

\* an IPv6 prefix asked about a shorter prefix around it: only the argument's
\* side of the test sees the overlap
C14_Witness ==
    /\ op = "Overlaps" /\ st = "true"
    /\ p.fam = 6 /\ x.fam = 6 /\ p.nbits = HalfLen + 1 /\ x.nbits = HalfLen - 1
    /\ p.lo # 0 /\ Val(p) # Val(x) /\ Val(p) + 2^(IPv6PrefixLen - p.nbits) - 1 < Val(x) + 2^(IPv6PrefixLen - x.nbits) - 1


\* ---- Hosts and HostIter ----

InitHosts ==
    /\ op = "init" /\ p \in Prefixes /\ a1 \in IPs \cup {NilIP}
    /\ x = NilPrefix /\ n = 0 /\ ps = << >> /\ a2 = NilIP /\ ret = << >> /\ st = "init"
    /\ cursor = NilCursor /\ visited = << >> /\ iter = NilIter

\* ret := p.Hosts(a1)
DoHosts ==
    /\ op = "init"
    /\ op' = "Hosts" /\ UNCHANGED << cursor, visited, iter >>
    /\ ret' = Hosts(p, a1).hosts
    /\ st' = Hosts(p, a1).st
    /\ UNCHANGED << p, x, n, ps, a1, a2 >>

\* iter := p.HostIter(a1); nothing is received yet
DoHostIter ==
    /\ op = "init"
    /\ op' = "HostIter" /\ UNCHANGED << cursor, visited >>
    /\ iter' = HostIter(p, a1).iter
    /\ st' = HostIter(p, a1).st
    /\ ret' = << >>
    /\ UNCHANGED << p, x, n, ps, a1, a2 >>

\* one iteration of the iterator's loop; the consumer appends what it
\* receives to ret, and the channel is closed when the loop ends
DoHostIterRun ==
    /\ op = "HostIter" /\ iter.open
    /\ LET s == HostIterStep(p, iter)
       IN  /\ iter' = [open |-> s.open, cur |-> s.cur]
           /\ ret' = ret \o s.send
    /\ UNCHANGED << op, p, x, n, ps, a1, a2, st, cursor, visited >>

SpecHosts == InitHosts /\ [][DoHosts \/ DoHostIter \/ DoHostIterRun]_vars


\* the value of an address of the family of q: the 4-byte form for IPv4, the
\* 16-byte form for IPv6
ValIn(q, ip) ==
    IF q.fam = 4 THEN To4(ip).lo ELSE Val16(To16(ip).hi, To16(ip).lo)

\* begin as a number, an empty begin meaning q's own address
BeginVal(q, begin) == IF begin = NilIP THEN Val(q) ELSE ValIn(q, begin)

\* the host-assignable addresses of q as the claims describe them
Assignable(q) ==
    IF q.nbits = Width(q) THEN Cover(q)
    ELSE IF q.fam = 4 THEN Cover(q) \ {Val(q), Val(q) + 2^(Width(q) - q.nbits) - 1}
    ELSE Cover(q) \ {Val(q)}

\* l lists exactly the addresses of S, in the form of q's family, ascending
ListsAscending(q, l, S) ==
    /\ Len(l) = Cardinality(S)
    /\ \A i \in DOMAIN l :
          /\ l[i].len = (IF q.fam = 4 THEN 4 ELSE 16)
          /\ ValIn(q, l[i]) \in S
    /\ \A i \in 1 .. Len(l) - 1 : ValIn(q, l[i]) < ValIn(q, l[i + 1])

\* begin is empty or an address of q's family: for IPv4 a 4-byte address or
\* an IPv4-mapped one, for IPv6 a 16-byte address
OwnFamily(q, begin) ==
    begin = NilIP \/ (IF q.fam = 4 THEN To4(begin) # NilIP ELSE begin.len = 16)

AddrIP(q) == IF q.fam = 4 THEN IP4(q.lo) ELSE IP16(<< q.hi, q.lo >>)

\* C16: for every prefix whose length is the family width, Hosts with an
\* empty begin returns the one-element list holding the prefix's address.
C16_HostsSingleAddress ==
    (op = "Hosts" /\ p.nbits = Width(p) /\ a1 = NilIP) =>
        (st = "ok" /\ ret = << AddrIP(p) >>)


\* l without the address of value v
WithoutAddr(q, l, v) == SelectSeq(l, LAMBDA h : ValIn(q, h) # v)

\* C17: for every prefix p, the default route included, and every address
\* first of p's family, what a consumer receives from p.HostIter(first) until
\* the channel is closed equals p.Hosts(first) with first itself removed.
C17_HostIterIsHosts ==
    (op = "HostIter" /\ OwnFamily(p, a1) /\ ~iter.open) =>
        /\ st = "ok"
        /\ ret = WithoutAddr(p, Hosts(p, a1).hosts, BeginVal(p, a1))


\* C18: for every prefix p and every n, n = 0 and n out of range included,
\* what a consumer receives from p.SubnetIter(n) until the channel is closed
\* equals the list p.Subnets(n), element by element.
C18_SubnetIterIsSubnets ==
    op = "SubnetIter" => ret = Subnets(p, n)


\* ---- Set ----

InitSet ==
    /\ op = "init" /\ p \in Prefixes /\ a1 \in IPs \cup {NilIP}
    /\ n \in -1 .. (IPv6PrefixLen + 1)
    /\ x = NilPrefix /\ ps = << >> /\ a2 = NilIP /\ ret = << >> /\ st = "init"
    /\ cursor = NilCursor /\ visited = << >> /\ iter = NilIter

\* st := p.Set(a1, n)
DoSet ==
    /\ op = "init"
    /\ op' = "Set" /\ UNCHANGED << cursor, visited, iter >>
    /\ p' = Set(p, a1, n).p
    /\ st' = Set(p, a1, n).st
    /\ UNCHANGED << x, n, ps, a1, a2, ret >>

SpecSet == InitSet /\ [][DoSet]_vars

\* the family of an address: 4 for a 4-byte address and for an IPv4-mapped
\* 16-byte one, 6 for any other 16-byte address, 0 for an empty one
AddrFamily(ip) ==
    IF ip.len = 4 THEN 4
    ELSE IF ip.len = 16
    THEN (IF Val16(ip.hi, ip.lo) \div 2^IPv4PrefixLen = 1 THEN 4 ELSE 6)
    ELSE 0

\* the number an address stands for in its family
AddrNumber(ip) ==
    IF ip.len = 4 THEN ip.lo
    ELSE IF AddrFamily(ip) = 4 THEN Val16(ip.hi, ip.lo) % 2^IPv4PrefixLen
    ELSE Val16(ip.hi, ip.lo)

\* the prefix (v & netmask(nb), nb) of family fam
MaskedPrefix(fam, v, nb) ==
    LET w == IF fam = 4 THEN IPv4PrefixLen ELSE IPv6PrefixLen
        m == (v \div 2^(w - nb)) * 2^(w - nb)
    IN  IF fam = 4 THEN [fam |-> 4, hi |-> 0, lo |-> m, nbits |-> nb]
        ELSE [fam |-> 6, hi |-> m \div 2^HalfLen, lo |-> m % 2^HalfLen, nbits |-> nb]

\* C19: p.Set(ip, nbits) on a prefix of family F succeeds iff ip is an address
\* of family F and 0 <= nbits <= width(F); on success p becomes
\* (ip & netmask(nbits), nbits); on failure it returns the invalid-argument
\* error and leaves p unchanged.
C19_Set ==
    [][op' = "Set" =>
          /\ (st' = "ok") <=> (AddrFamily(a1) = p.fam /\ 0 <= n /\ n <= Width(p))
          /\ st' = "ok" => p' = MaskedPrefix(p.fam, AddrNumber(a1), n)
          /\ st' # "ok" => (st' = "error" /\ p' = p)]_vars

\* an IPv6 prefix set to an address with bits in both halves of its host part
C19_Witness ==
    /\ op = "Set" /\ st = "ok" /\ p.fam = 6 /\ n = HalfLen - 1 /\ p.nbits = n
    /\ a1.len = 16 /\ a1.hi = 2^HalfLen - 1 /\ a1.lo = 2^HalfLen - 1
    /\ p.hi = 2^HalfLen - 2 /\ p.lo = 0


\* the first and the last address of a prefix as 16-byte numbers
FirstVal(q) == Val16(PrefixIP(q).hi, PrefixIP(q).lo)

LastVal(q) == FirstVal(q) + NumAddr(q) - 1

\* the cursor's current address as a number
CurrVal(cc) == Val16(cc.curr[1], cc.curr[2])

\* C20: when the cursor stands on the last address of the last prefix of its
\* list, Next returns nil and leaves the index and the current address
\* unchanged, so Pos still reports that position and later calls return nil
\* again; in every other state Next moves to the next address of the current
\* prefix or, from its last address, to the first address of the next prefix,
\* and returns the new position.
C20_CursorNext ==
    [][(op' \in {"Next", "End"}) =>
          LET q == cursor.ps[cursor.pi] IN
          IF cursor.pi = Len(cursor.ps) /\ CurrVal(cursor) = LastVal(q)
          THEN /\ op' = "End" /\ st' = "nil"
               /\ cursor'.pi = cursor.pi /\ cursor'.curr = cursor.curr
               /\ Pos(cursor') = Pos(cursor)
               /\ visited' = visited
          ELSE /\ op' = "Next" /\ st' = "ok"
               /\ IF CurrVal(cursor) = LastVal(q)
                  THEN /\ cursor'.pi = cursor.pi + 1
                       /\ CurrVal(cursor') = FirstVal(cursor.ps[cursor.pi + 1])
                  ELSE /\ cursor'.pi = cursor.pi
                       /\ CurrVal(cursor') = CurrVal(cursor) + 1
               /\ visited' = Append(visited, Pos(cursor'))
               /\ Pos(cursor').prefix = cursor.ps[cursor'.pi]
               /\ Val16(Pos(cursor').ip.hi, Pos(cursor').ip.lo) = CurrVal(cursor')]_vars

\* Next has returned nil on the last address of the second of two prefixes,
\* an IPv6 prefix of two addresses
C20_Witness ==
    /\ op = "End" /\ st = "nil" /\ Len(cursor.ps) = 2 /\ cursor.pi = 2
    /\ cursor.ps[1].fam = 4 /\ cursor.ps[2].fam = 6
    /\ cursor.ps[2].nbits = IPv6PrefixLen - 1
    /\ CurrVal(cursor) = LastVal(cursor.ps[2])
    /\ Len(visited) = NumAddr(cursor.ps[1]) + 2


\* the prefix holds the address: they are of one family and the address lies
\* between the prefix's first and last address
Holds(q, ip) ==
    /\ AddrFamily(ip) = q.fam
    /\ Val16(To16(ip).hi, To16(ip).lo) \in FirstVal(q) .. LastVal(q)

\* C21: Cursor.Set(pos) succeeds iff pos is non-nil, pos.Prefix equals a
\* prefix of the cursor's list and that prefix contains pos.IP; on success
\* Pos() is pos, its address in the 16-byte form; on failure it returns an
\* error and the cursor's index and current address are unchanged.  Stated of
\* every cursor a walk reaches and every position it can be given.
C21_CursorSet ==
    cursor # NilCursor =>
        \A pos \in SetPositions :
            LET r == CursorSetPos(cursor, pos)
                listed == pos # NilPos /\ \E i \in DOMAIN cursor.ps :
                              cursor.ps[i] = pos.prefix /\ Holds(cursor.ps[i], pos.ip)
            IN  /\ (r.st = "ok") <=> listed
                /\ r.st = "ok" =>
                      /\ Pos(r.c).prefix = pos.prefix
                      /\ Pos(r.c).ip = To16(pos.ip)
                /\ r.st # "ok" =>
                      /\ r.st = "error"
                      /\ r.c.pi = cursor.pi /\ r.c.curr = cursor.curr /\ r.c = cursor

\* a cursor over an IPv4 and an IPv6 prefix that was moved to its end and
\* then placed on the last address of its first prefix
C21_Witness ==
    /\ op = "CursorSet" /\ st = "ok"
    /\ Len(cursor.ps) = 2 /\ cursor.ps[1].fam = 6 /\ cursor.ps[2].fam = 4
    /\ cursor.ps[1].nbits = IPv6PrefixLen - 1
    /\ cursor.pi = 1 /\ CurrVal(cursor) = LastVal(cursor.ps[1])
    /\ visited = << Pos(cursor) >>


ByteLen == 1

\* net.IPv4len and the octets of one word of an ipv6Int
IPv4len == IPv4PrefixLen \div ByteLen
IPv6WordLen == HalfLen \div ByteLen

\* byte(v)
Byte(v) == v % 2^ByteLen

\* l := nbits / 8; if nbits%8 > 0 { l++ }
NLRILen(nbits) == nbits \div ByteLen + (IF nbits % ByteLen > 0 THEN 1 ELSE 0)

\* ipv4Int.encodeNLRI on the buffer of MarshalBinary, 1+net.IPv4len octets:
\* after b[0] = nbits and l++, the loop stores l octets into b[1:], which
\* holds net.IPv4len of them
ipv4encodeNLRI(i, nbits) ==
    LET l == NLRILen(nbits) + 1
    IN  IF l > IPv4len THEN [st |-> "panic", n |-> 0, b |-> << >>]
        ELSE [st |-> "ok", n |-> l,
              b |-> << nbits >> \o
                    [k \in 1 .. IPv4len |->
                        IF k <= l
                        THEN Byte(Shr(i, IPv4PrefixLen - ByteLen * k, IPv4PrefixLen))
                        ELSE 0]]

\* (*ipv6Int).encodeNLRI on the buffer of MarshalBinary, 1+net.IPv6len octets:
\* the loop stores under n < 8 and 8 <= n < 16 only
ipv6encodeNLRI(i, nbits) ==
    LET l == NLRILen(nbits) + 1
    IN  [st |-> "ok", n |-> l,
         b |-> << nbits >> \o
               [k \in 1 .. 2 * IPv6WordLen |->
                   IF k > l THEN 0
                   ELSE IF k <= IPv6WordLen
                   THEN Byte(Shr(i[1], HalfLen - ByteLen * k, HalfLen))
                   ELSE Byte(Shr(i[2], 2 * HalfLen - ByteLen * k, HalfLen))]]

\* (*IPv4).MarshalBinary: return b[:n], nil
IPv4MarshalBinary(q) ==
    LET r == ipv4encodeNLRI(q.lo, q.nbits)
    IN  IF r.st = "panic" THEN [st |-> "panic", data |-> << >>]
        ELSE [st |-> "ok", data |-> SubSeq(r.b, 1, r.n)]

\* (*IPv6).MarshalBinary
IPv6MarshalBinary(q) ==
    LET r == ipv6encodeNLRI(<< q.hi, q.lo >>, q.nbits)
    IN  [st |-> "ok", data |-> SubSeq(r.b, 1, r.n)]

MarshalBinary(q) == IF q.fam = 4 THEN IPv4MarshalBinary(q) ELSE IPv6MarshalBinary(q)

\* the loop of (*IPv4).decodeNLRI: p.addr |= ipv4Int(b[n]) << uint(32-8*(n+1))
RECURSIVE ipv4decodeLoop(_, _, _)
ipv4decodeLoop(addr, b, k) ==
    IF k > Len(b) THEN addr
    ELSE ipv4decodeLoop(
             BitOr(addr, Shl(b[k], IPv4PrefixLen - ByteLen * k, IPv4PrefixLen)),
             b, k + 1)

\* (*IPv4).decodeNLRI
IPv4decodeNLRI(q, data) ==
    IF Len(data) = 0 THEN [st |-> "panic", p |-> q]
    ELSE [st |-> "ok",
          p |-> [fam |-> 4, hi |-> 0,
                 lo |-> ipv4decodeLoop(q.lo, Tail(data), 1),
                 nbits |-> data[1]]]

\* the loop of (*IPv6).decodeNLRI
RECURSIVE ipv6decodeLoop(_, _, _)
ipv6decodeLoop(addr, b, k) ==
    IF k > Len(b) THEN addr
    ELSE ipv6decodeLoop(
             IF k <= IPv6WordLen
             THEN << BitOr(addr[1], Shl(b[k], HalfLen - ByteLen * k, HalfLen)), addr[2] >>
             ELSE IF k <= 2 * IPv6WordLen
             THEN << addr[1], BitOr(addr[2], Shl(b[k], 2 * HalfLen - ByteLen * k, HalfLen)) >>
             ELSE addr,
             b, k + 1)

\* (*IPv6).decodeNLRI
IPv6decodeNLRI(q, data) ==
    IF Len(data) = 0 THEN [st |-> "panic", p |-> q]
    ELSE LET a == ipv6decodeLoop(<< q.hi, q.lo >>, Tail(data), 1)
         IN  [st |-> "ok",
              p |-> [fam |-> 6, hi |-> a[1], lo |-> a[2], nbits |-> data[1]]]

UnmarshalBinary(q, data) ==
    IF q.fam = 4 THEN IPv4decodeNLRI(q, data) ELSE IPv6decodeNLRI(q, data)

\* ---- MarshalBinary, UnmarshalBinary ----

\* p is the prefix to marshal, x the receiver of UnmarshalBinary with the
\* value it held before
InitCodec ==
    /\ op = "init" /\ p \in Prefixes /\ x \in {q \in Prefixes : q.fam = p.fam}
    /\ n = 0 /\ ps = << >> /\ a1 = NilIP /\ a2 = NilIP /\ ret = << >> /\ st = "init"
    /\ cursor = NilCursor /\ visited = << >> /\ iter = NilIter

\* ret, err := p.MarshalBinary()
DoMarshalBinary ==
    /\ op = "init"
    /\ op' = "MarshalBinary" /\ UNCHANGED << cursor, visited, iter >>
    /\ ret' = MarshalBinary(p).data
    /\ st' = MarshalBinary(p).st
    /\ UNCHANGED << p, x, n, ps, a1, a2 >>

\* x.UnmarshalBinary(ret)
DoUnmarshalBinary ==
    /\ op = "MarshalBinary" /\ st = "ok"
    /\ op' = "UnmarshalBinary" /\ UNCHANGED << cursor, visited, iter >>
    /\ x' = UnmarshalBinary(x, ret).p
    /\ st' = UnmarshalBinary(x, ret).st
    /\ UNCHANGED << p, n, ps, a1, a2, ret >>

SpecCodec == InitCodec /\ [][DoMarshalBinary \/ DoUnmarshalBinary]_vars

\* the k-th octet of the address of q, counted from the high-order end
AddrOctet(q, k) == (Val(q) \div 2^(Width(q) - ByteLen * k)) % 2^ByteLen

\* C23: for every prefix of either family and every length, MarshalBinary
\* returns without error or panic 1 + ceil(nbits/8) octets: the length
\* octet, then the high-order octets of the address in big-endian order
C23_MarshalBinary ==
    op = "MarshalBinary" =>
        /\ st = "ok"
        /\ Len(ret) = 1 + NLRILen(p.nbits)
        /\ ret[1] = p.nbits
        /\ \A k \in 1 .. NLRILen(p.nbits) : ret[k + 1] = AddrOctet(p, k)

\* C24: a receiver of the same family holding any prior value equals p after
\* it has unmarshalled the octets p was marshalled to
C24_UnmarshalRoundTrip ==
    op = "UnmarshalBinary" => (st = "ok" /\ Equal(x, p))


\* ---------------------------------------------------------------------------
\* The streaming NLRI Encoder and Decoder

\* the octets of an address of a family: net.IPv4len, net.IPv6len
AddrLen(fam) == IF fam = 4 THEN IPv4len ELSE 2 * IPv6WordLen

\* The record the Encoder hands to its writer for one prefix: the length
\* octet and every octet of the address, 1+net.IPv4len or 1+net.IPv6len
\* octets, the records TestNLRICodec compares the output with.
encodeNLRIRecord(q) ==
    << q.nbits >> \o
    [k \in 1 .. AddrLen(q.fam) |->
        IF q.fam = 4
        THEN Byte(Shr(q.lo, IPv4PrefixLen - ByteLen * k, IPv4PrefixLen))
        ELSE IF k <= IPv6WordLen
        THEN Byte(Shr(q.hi, HalfLen - ByteLen * k, HalfLen))
        ELSE Byte(Shr(q.lo, 2 * HalfLen - ByteLen * k, HalfLen))]

\* the address octets b[from .. to] as one big-endian number
RECURSIVE OctetsToInt(_, _, _)
OctetsToInt(b, from, to) ==
    IF from > to THEN 0
    ELSE OctetsToInt(b, from, to - 1) * 2^ByteLen + b[to]

\* nlriToIPv4, nlriToIPv6: the prefix of one record
nlriToPrefix(fam, b) ==
    IF fam = 4 THEN newIPv4(OctetsToInt(b, 2, 1 + IPv4len), b[1])
    ELSE newIPv6(<< OctetsToInt(b, 2, 1 + IPv6WordLen),
                    OctetsToInt(b, 2 + IPv6WordLen, 1 + 2 * IPv6WordLen) >>, b[1])

\* An encoder loop that writes a record for the prefixes of the other family
\* too
RECURSIVE encodeNLRIAll(_, _, _)
encodeNLRIAll(fam, l, out) ==
    IF l = << >> THEN [st |-> "ok", data |-> out]
    ELSE encodeNLRIAll(fam, Tail(l), out \o encodeNLRIRecord(Head(l)))

\* (*Encoder).encodeIPv4NLRI, encodeIPv6NLRI on a writer that takes every
\* octet it is given (a bytes.Buffer): out is what has been written
RECURSIVE encodeNLRI(_, _, _)
encodeNLRI(fam, l, out) ==
    IF l = << >> THEN [st |-> "ok", data |-> out]
    ELSE IF Head(l).fam # fam THEN encodeNLRI(fam, Tail(l), out)
    ELSE LET b == encodeNLRIRecord(Head(l))
         IN  IF Len(b) < 1 + AddrLen(fam)
             THEN [st |-> "error", data |-> out \o b]
             ELSE encodeNLRI(fam, Tail(l), out \o b)

\* (*Decoder).decodeIPv4NLRI, decodeIPv6NLRI on a reader over data (a
\* bytes.Reader): the prefixes appended
RECURSIVE decodeNLRI(_, _)
decodeNLRI(fam, data) ==
    IF Len(data) < 1 + AddrLen(fam) THEN << >>
    ELSE << nlriToPrefix(fam, SubSeq(data, 1, 1 + AddrLen(fam))) >>
         \o decodeNLRI(fam, SubSeq(data, 2 + AddrLen(fam), Len(data)))

\* ---- Encoder, Decoder ----

\* the lists the encoder is given: every list of up to MaxList-1 prefixes and
\* the lists of MaxList prefixes of a few addresses
CodecLists == CursorLists \cup [1 .. MaxList -> SetPrefixes]

\* ps is the list to encode, n the family the encoder and the decoder are
\* declared for
InitStream ==
    /\ op = "init" /\ ps \in CodecLists /\ n \in {4, 6}
    /\ p = NilPrefix /\ x = NilPrefix /\ a1 = NilIP /\ a2 = NilIP /\ ret = << >>
    /\ st = "init"
    /\ cursor = NilCursor /\ visited = << >> /\ iter = NilIter

\* err := enc.Encode(ps), ret the octets in the writer
DoEncode ==
    /\ op = "init"
    /\ op' = "Encode" /\ UNCHANGED << cursor, visited, iter >>
    /\ ret' = encodeNLRI(n, ps, << >>).data
    /\ st' = encodeNLRI(n, ps, << >>).st
    /\ UNCHANGED << p, x, n, ps, a1, a2 >>

\* var ps []Prefix; err := dec.Decode(&ps) on a reader over ret
DoDecode ==
    /\ op = "Encode" /\ st = "ok"
    /\ op' = "Decode" /\ UNCHANGED << cursor, visited, iter >>
    /\ ps' = decodeNLRI(n, ret)
    /\ st' = "ok"
    /\ UNCHANGED << p, x, n, a1, a2, ret >>

SpecStream == InitStream /\ [][DoEncode \/ DoDecode]_vars

\* the prefixes of l of one family, in the order of l
FamilyOnly(l, fam) == SelectSeq(l, LAMBDA q : q.fam = fam)

\* the records of the prefixes of l, one after the other
RECURSIVE RecordsOf(_)
RecordsOf(l) ==
    IF l = << >> THEN << >>
    ELSE << Head(l).nbits >>
         \o [k \in 1 .. Width(Head(l)) \div ByteLen |-> AddrOctet(Head(l), k)]
         \o RecordsOf(Tail(l))

AnyLists == UNION {[1 .. k -> Prefixes] : k \in 1 .. (MaxList - 1)}
            \cup [1 .. MaxList -> SetPrefixes]

InitAnyList ==
    /\ op = "init" /\ ps \in AnyLists
    /\ p = NilPrefix /\ x = NilPrefix /\ n = 0 /\ a1 = NilIP /\ a2 = NilIP
    /\ ret = << >> /\ st = "init"
    /\ cursor = NilCursor /\ visited = << >> /\ iter = NilIter

SpecAnyList == InitAnyList /\ [][DoAggregate \/ DoSupernet]_vars

\* a list holds prefixes of both families
MixedFamilies(l) == \E i, j \in DOMAIN l : l[i].fam # l[j].fam

\* C26: Supernet(ps) returns nil whenever ps holds prefixes of both
\* families, rather than the supernet of the prefixes of the family of ps[0]
C26_SupernetRejectsMixed ==
    [][(op' = "Supernet" /\ MixedFamilies(ps)) => st' = "nil"]_vars


\* C30: Aggregate(ps) and Supernet(ps) leave the caller's list unchanged:
\* after the call ps holds the same prefixes in the same order, also when it
\* is unsorted, holds duplicates or mixes the families
C30_CallerListUnchanged ==
    [][(op' \in {"Aggregate", "Supernet"}) => ps' = ps]_vars

\* C29: for every non-empty same-family list Aggregate terminates without
\* panicking: the slice subs[:2^bf] of the group branch is in range and the
\* supernet it emits is not nil
C29_AggregateNoPanic ==
    op = "Aggregate" => st = "ok"


\* C28: after any sequence of Next calls and of successful or failed Set
\* calls the current index is within the list, the list is strictly
\* ascending with no two equal prefixes, the prefix of Pos() is the list
\* element at the index and contains the address of Pos(), and the cached
\* last address is the last address of that element
C28_CursorInvariant ==
    cursor # NilCursor =>
        /\ cursor.pi \in 1 .. Len(cursor.ps)
        /\ \A i \in 1 .. (Len(cursor.ps) - 1) :
               compareAscending(cursor.ps[i], cursor.ps[i + 1]) < 0
        /\ \A i, j \in DOMAIN cursor.ps :
               i # j => ~PrefixEqual(cursor.ps[i], cursor.ps[j])
        /\ Pos(cursor).prefix = cursor.ps[cursor.pi]
        /\ Holds(cursor.ps[cursor.pi], Pos(cursor).ip)
        /\ cursor.last = lastInt(cursor.ps[cursor.pi])


\* Set has moved the cursor to the last address of the second of two
\* prefixes, a prefix of more than one address
C28_Witness ==
    /\ op = "CursorSet" /\ st = "ok" /\ cursor # NilCursor
    /\ Len(cursor.ps) = 2 /\ cursor.pi = 2
    /\ FirstVal(cursor.ps[2]) # LastVal(cursor.ps[2])
    /\ CurrVal(cursor) = LastVal(cursor.ps[2])


\* ---------------------------------------------------------------------------
\* The iterators as goroutines: the producer run(), the consumer of the
\* channel and the idle timer of the producer's select

\* one test of the loop of (*ipv4SubnetIter).run and the body up to the
\* select: open is FALSE when run returns, send holds the prefix to offer
ipv4SubnetIterStep(q, nb, cur, passed) ==
    IF nb < 0 \/ q.nbits + nb > IPv4PrefixLen
    THEN [open |-> FALSE, cur |-> cur, send |-> << >>]
    ELSE LET m == BitNot(mask32(q.nbits + nb), IPv4PrefixLen)
         IN  IF ~IPv4isLimitedBroadcastAddr(cur) /\ ~IPv4isBroadcastAddr(q, BitOr(cur, m))
             THEN LET nxt == IF ~passed THEN cur ELSE (BitOr(cur, m) + 1) % 2^IPv4PrefixLen
                  IN  [open |-> TRUE, cur |-> nxt, send |-> << newIPv4(nxt, q.nbits + nb) >>]
             ELSE [open |-> FALSE, cur |-> cur, send |-> << >>]

\* the same of (*ipv6SubnetIter).run
ipv6SubnetIterStep(q, nb, cur, passed) ==
    IF nb < 0 \/ q.nbits + nb > IPv6PrefixLen
    THEN [open |-> FALSE, cur |-> cur, send |-> << >>]
    ELSE LET m == setHostmask(q.nbits + nb)
             last == << BitOr(cur[1], m[1]), BitOr(cur[2], m[2]) >>
         IN  IF ~IPv6isLastAddr(q, last)
             THEN LET nxt == IF ~passed THEN cur ELSE incr(last)
                  IN  [open |-> TRUE, cur |-> nxt, send |-> << newIPv6(nxt, q.nbits + nb) >>]
             ELSE [open |-> FALSE, cur |-> cur, send |-> << >>]

SubnetIterStep(q, nb, it) ==
    IF q.fam = 4
    THEN LET s == ipv4SubnetIterStep(q, nb, it.cur.lo, it.passed)
         IN  [open |-> s.open, cur |-> IP4(s.cur), send |-> s.send]
    ELSE LET s == ipv6SubnetIterStep(q, nb, ipToIPv6Int(it.cur), it.passed)
         IN  [open |-> s.open, cur |-> IP16(s.cur), send |-> s.send]

\* the capacity of the channel: make(chan net.IP, 1), make(chan Prefix, 1)
ChanCap == 1

\* An iterator with its goroutine: cur and passed are the fields of the
\* struct, ch the elements buffered in iter.ch and closed the number of
\* times it was closed, pc the place of run() ("idle" before go iter.run(),
\* "loop" at the loop test, "select" blocked in the select, "closed" after
\* the deferred close), item the element the select offers, tmo the timer
\* of the select
IdleIter ==
    [open |-> FALSE, cur |-> NilIP, passed |-> FALSE, pc |-> "idle",
     item |-> << >>, ch |-> << >>, tmo |-> "none", closed |-> 0]

\* a select with the send case only
selectSendOnly(it) == IF Len(it.ch) < ChanCap THEN {"send"} ELSE {}

\* the cases of the select that can proceed
selectReady(it) ==
    (IF Len(it.ch) < ChanCap THEN {"send"} ELSE {})
    \cup (IF it.tmo = "fired" THEN {"tmo"} ELSE {})

\* the prefixes iterated have at most IterHostBits host bits
IterHostBits == 3

\* p is the prefix iterated, n the number of bits given to SubnetIter
InitIter ==
    /\ op = "init" /\ n \in -1 .. MaxSubnetBits
    /\ p \in {q \in Prefixes : Width(q) - q.nbits <= IterHostBits}
    /\ x = NilPrefix /\ ps = << >> /\ a1 = NilIP /\ a2 = NilIP /\ ret = << >> /\ st = "init"
    /\ cursor = NilCursor /\ visited = << >> /\ iter = IdleIter

\* ch := p.HostIter(nil): the iterator is built and go iter.run() starts
\* the producer; the caller starts to receive.  HostIter takes no n: it is
\* started from the states with n = 0 only
GoHostIter ==
    /\ op = "init" /\ n = 0
    /\ op' = "HostIter" /\ st' = "receiving"
    /\ iter' = [IdleIter EXCEPT !.open = TRUE, !.cur = HostIter(p, a1).iter.cur, !.pc = "loop"]
    /\ UNCHANGED << p, x, n, ps, a1, a2, ret, cursor, visited >>

\* ch := p.SubnetIter(n)
GoSubnetIter ==
    /\ op = "init"
    /\ op' = "SubnetIter" /\ st' = "receiving"
    /\ iter' = [IdleIter EXCEPT !.open = TRUE, !.cur = AddrIP(p), !.pc = "loop"]
    /\ UNCHANGED << p, x, n, ps, a1, a2, ret, cursor, visited >>

\* the producer tests its loop and runs the body up to the select: it
\* returns, which closes the channel, goes round again, or arms the timer
\* and blocks in the select
ProducerLoop ==
    /\ iter.pc = "loop"
    /\ LET s == IF op = "HostIter" THEN HostIterStep(p, iter) ELSE SubnetIterStep(p, n, iter)
       IN  iter' = IF ~s.open
                   THEN [iter EXCEPT !.open = FALSE, !.pc = "closed", !.closed = @ + 1]
                   ELSE IF s.send = << >>
                   THEN [iter EXCEPT !.cur = s.cur]
                   ELSE [iter EXCEPT !.cur = s.cur, !.passed = TRUE, !.item = s.send,
                                     !.pc = "select", !.tmo = "armed"]
    /\ UNCHANGED << op, p, x, n, ps, a1, a2, ret, st, cursor, visited >>

\* case iter.ch <- ...: the element goes into the channel, the timer is
\* stopped and the loop goes on
ProducerSend ==
    /\ iter.pc = "select" /\ "send" \in selectReady(iter)
    /\ iter' = [iter EXCEPT !.ch = Append(@, iter.item[1]), !.item = << >>,
                            !.tmo = "none", !.pc = "loop"]
    /\ UNCHANGED << op, p, x, n, ps, a1, a2, ret, st, cursor, visited >>

\* case <-tmo.C: run returns and the deferred close closes the channel
ProducerTimeout ==
    /\ iter.pc = "select" /\ "tmo" \in selectReady(iter)
    /\ iter' = [iter EXCEPT !.item = << >>, !.tmo = "none", !.pc = "closed",
                            !.closed = @ + 1]
    /\ UNCHANGED << op, p, x, n, ps, a1, a2, ret, st, cursor, visited >>

\* the second of the timer is over
TimerFire ==
    /\ iter.tmo = "armed"
    /\ iter' = [iter EXCEPT !.tmo = "fired"]
    /\ UNCHANGED << op, p, x, n, ps, a1, a2, ret, st, cursor, visited >>

\* the consumer receives an element
ConsumerReceive ==
    /\ st = "receiving" /\ iter.ch # << >>
    /\ ret' = Append(ret, Head(iter.ch))
    /\ iter' = [iter EXCEPT !.ch = Tail(@)]
    /\ UNCHANGED << op, p, x, n, ps, a1, a2, st, cursor, visited >>

\* the consumer stops receiving, at any point
ConsumerStop ==
    /\ st = "receiving"
    /\ st' = "stopped"
    /\ UNCHANGED << op, p, x, n, ps, a1, a2, ret, cursor, visited, iter >>

NextIter ==
    \/ GoHostIter \/ GoSubnetIter
    \/ ProducerLoop \/ ProducerSend \/ ProducerTimeout \/ TimerFire
    \/ ConsumerReceive \/ ConsumerStop

SpecIter == InitIter /\ [][NextIter]_vars

\* The goroutine of the producer is scheduled whenever it can run, and a
\* timer that is armed and not stopped fires; nothing is assumed of the
\* consumer.
SpecIterFair ==
    /\ SpecIter
    /\ WF_vars(ProducerLoop)
    /\ WF_vars(ProducerSend \/ ProducerTimeout)
    /\ WF_vars(TimerFire)

\* C27: under every interleaving of producer, consumer and idle timer, also
\* with a consumer that stops receiving at any point, the producer
\* eventually exits and closes the channel exactly once, and it never stays
\* blocked in a send: the channel has been closed once when run() has
\* returned and not before, and a producer at its loop or blocked in its
\* select eventually returns
C27_ProducerExits ==
    /\ [](iter.closed = IF iter.pc = "closed" THEN 1 ELSE 0)
    /\ (iter.pc \in {"loop", "select"}) ~> (iter.pc = "closed")

\* the consumer has stopped with one element left in the channel, and the
\* producer, with elements still to send, has left through the timer and
\* closed the channel
C27_Witness ==
    /\ st = "stopped" /\ Len(iter.ch) = ChanCap
    /\ iter.pc = "closed" /\ iter.open /\ iter.closed = 1

=============================================================================
